---- MODULE Spec2Model ----
(***************************************************************************)
(* Model of the AstrBot quiz plugin: the task scheduler of                 *)
(* SmartQuizPlugin (main.py), the per-job pipeline _execute_task_sync and  *)
(* the BindingStore.                                                       *)
(*                                                                         *)
(* Scheduling model.  Command handlers and worker coroutines run on one    *)
(* asyncio event loop, so a coroutine is atomic between two suspension     *)
(* points.  The suspension points are: _resolve_course (asyncio.to_thread) *)
(* in _handle_start, the two _send_text calls and asyncio.to_thread in     *)
(* _run_task, and a blocked queue.get() in _worker_loop.  Acquiring the    *)
(* uncontended asyncio.Lock and putting into the unbounded asyncio.Queue   *)
(* do not suspend.  _execute_task_sync runs in a thread of its own and     *)
(* interleaves freely with the event loop; the only shared datum it reads  *)
(* is task.cancel_event.                                                   *)
(*                                                                         *)
(* The task index self._tasks is the field indexed of the jobs.  The sweep  *)
(* _cleanup_tasks is part of on_quiz_command and on_admin_command; the     *)
(* short commands (on_start_command, on_cancel_command, on_bind_command)   *)
(* do not sweep.  Only the runs of CleanupSpec last longer than the 24     *)
(* hour retention window.                                                  *)
(*                                                                         *)
(* Runs.  Spec and TimedSpec are runs of the scheduler, BindSpec of the    *)
(* binding store, JobSpec of one job under every configuration with its    *)
(* chapters at the level of questions, AnswerSpec of one QuizBot           *)
(* resolving questions against its bank and the Oracle.  In JobSpec the    *)
(* result of find_answer for a question is drawn freely; AnswerSpec        *)
(* computes it.  min_answer_rate is given in percent.  LoginSpec is one    *)
(* call of analyze_network_request, SelectSpec one job under every         *)
(* chapter selection, CmdSpec the scheduler under every command, the       *)
(* administrative ones included.  CleanupSpec is the scheduler over more   *)
(* than a retention window, LoopSpec one job over up to MaxLoop chapters,  *)
(* LiveSpec the jobs of one user with workers that go on (weak fairness).  *)
(*                                                                         *)
(* Strings of the program are written in ASCII:                            *)
(*   modes  "all" = 全部, "incomplete" = 未完成, "explicit" = 指定,          *)
(*          "range" = 范围                                                  *)
(***************************************************************************)
EXTENDS Integers, Sequences, FiniteSets, Bags, TLC

\* ------------------------------------------------------------------ bounds
NumUsers == 2
MaxTasks == 2
MaxPending == 2
MaxClock == 2
MaxChapters == 2
MaxQuestions == 2
MaxPartitions == 2
MaxCalls == 4
\* the configured value of "max_concurrency"
ConfigMaxConcurrency == 1
MaxText == 3
MaxLoop == 5

Users == 1..NumUsers

Min(a, b) == IF a <= b THEN a ELSE b
Max(a, b) == IF a >= b THEN a ELSE b

\* ------------------------------------------------------------------ text
\* A text is a sequence of one-character strings.
Digits == {"0", "1", "2", "3", "4", "5", "6", "7", "8", "9"}

DigitVal(c) ==
  CASE c = "0" -> 0 [] c = "1" -> 1 [] c = "2" -> 2 [] c = "3" -> 3
    [] c = "4" -> 4 [] c = "5" -> 5 [] c = "6" -> 6 [] c = "7" -> 7
    [] c = "8" -> 8 [] c = "9" -> 9

\* str.split(sep) for a one-character separator: always at least one part
RECURSIVE SplitOn(_, _)
SplitOn(text, sep) ==
  IF \A i \in 1..Len(text) : text[i] # sep
    THEN <<text>>
    ELSE LET k == CHOOSE i \in 1..Len(text) :
                    text[i] = sep /\ \A j \in 1..(i - 1) : text[j] # sep
         IN  <<SubSeq(text, 1, k - 1)>> \o SplitOn(SubSeq(text, k + 1, Len(text)), sep)

\* str.strip()
RECURSIVE Strip(_)
Strip(s) ==
  IF s = <<>> THEN s
  ELSE IF Head(s) = " " THEN Strip(Tail(s))
  ELSE IF s[Len(s)] = " " THEN Strip(SubSeq(s, 1, Len(s) - 1))
  ELSE s

\* Characters that str.isdigit() accepts and int() rejects, such as the
\* superscript two (U+00B2); "^" stands for them.
OtherDigits == {"^"}

\* str.isdigit()
IsDigit(s) == s # <<>> /\ \A i \in 1..Len(s) : s[i] \in Digits \cup OtherDigits

\* the value of a digit string
RECURSIVE DigitsToInt(_)
DigitsToInt(s) ==
  IF s = <<>> THEN 0
  ELSE 10 * DigitsToInt(SubSeq(s, 1, Len(s) - 1)) + DigitVal(s[Len(s)])

\* int(s): surrounding blanks are ignored; anything but digits raises ValueError.
\* (The texts of the model hold no sign and no underscore.)
IntOk(s) == Strip(s) # <<>> /\ \A i \in 1..Len(Strip(s)) : Strip(s)[i] \in Digits
IntOf(s) == DigitsToInt(Strip(s))

\* _parse_range: [ok, start, end, error]
_parse_range(text) ==
  LET parts == SplitOn(text, "-") IN
  IF Len(parts) # 2
    THEN [ok |-> FALSE, start |-> 0, end |-> 0, error |-> "range_format"]
  ELSE IF ~IntOk(parts[1]) \/ ~IntOk(parts[2])
    THEN [ok |-> FALSE, start |-> 0, end |-> 0, error |-> "invalid_literal"]
  ELSE LET start == IntOf(parts[1])
           end == IntOf(parts[2])
       IN  IF start <= 0 \/ end <= 0 \/ start > end
             THEN [ok |-> FALSE, start |-> start, end |-> end, error |-> "range_error"]
             ELSE [ok |-> TRUE, start |-> start, end |-> end, error |-> "None"]

\* ascending sequence of the members of a finite set of integers: sorted(set(..))
RECURSIVE SortedSeq(_)
SortedSeq(S) ==
  IF S = {} THEN <<>>
  ELSE LET m == CHOOSE x \in S : \A y \in S : x <= y
       IN  <<m>> \o SortedSeq(S \ {m})

\* _parse_index_list: [ok, indices]; ok is false when int(item) raises
\* ValueError at line 892 for an item that passed isdigit()
_parse_index_list(text) ==
  LET parts == SplitOn(text, ",")
      items == {Strip(parts[i]) : i \in 1..Len(parts)}
      numbers == {x \in items : x # <<>> /\ IsDigit(x)}
  IN  IF \A x \in numbers : IntOk(x)
        THEN [ok |-> TRUE, indices |-> SortedSeq({IntOf(x) : x \in numbers})]
        ELSE [ok |-> FALSE, indices |-> <<>>]


\* ------------------------------------------------------------------ state
VARIABLES
  now,       \* the wall clock read by time.time() and _now_str()
  config,    \* the plugin configuration (strict_mode, auto_submit, min_answer_rate)
  bindings,  \* BindingStore._data["bindings"]
  disk,      \* bindings.json as last written by BindingStore._save
  tasks,     \* the QuizTask objects, by task id
  queue,     \* SmartQuizPlugin._queue
  pending,   \* per user: the _handle_start coroutines suspended in _resolve_course
  wk,        \* per worker: position of _worker_loop/_run_task and the pipeline thread's locals
  hist,      \* per task: history of what was done for it
  firstBind, \* per identity: the username of its first successful bind
  lastBind,  \* the most recent BindingStore.bind call and what it returned
  bot,       \* one QuizBot: question_bank, api_available, api_error_count
  asked,     \* history of that bot's find_answer calls
  pool,      \* _workers_started and the worker loops created by _ensure_workers
  auth       \* one call of analyze_network_request: its position and its attempts

storeVars == <<bindings, disk, firstBind, lastBind>>
schedVars == <<tasks, queue, pending, wk, hist>>
quizVars == <<bot, asked, auth>>
vars == <<now, config, pool, storeVars, schedVars, quizVars>>

\* Optional[float]: <<>> is None, <<t>> is the value t
NoTime == <<>>

Terminal == {"completed", "failed", "canceled"}
TaskIds == 1..Len(tasks)

\* _max_concurrency, lines 226-229: the configured value clamped to [1, 3]
ClampConcurrency(value) == IF value < 1 THEN 1 ELSE IF value > 3 THEN 3 ELSE value
_max_concurrency == ClampConcurrency(ConfigMaxConcurrency)
Workers == 1.._max_concurrency

\* QuizTask as constructed by _handle_start
QuizTask(qq, mode, spec) ==
  [qq_id |-> qq, mode |-> mode, spec |-> spec, status |-> "queued",
   created_at |-> now, started_at |-> NoTime, finished_at |-> NoTime,
   cancel_event |-> FALSE, error |-> "None", indexed |-> TRUE]

\* self._tasks, the task index: the jobs of ts whose id is a key of it.  A job
\* popped from the index lives on as an object while a worker or the queue
\* holds it; indexed tells whether the index still has it.
IndexHas(ts, tid) == tid \in DOMAIN ts /\ ts[tid].indexed

\* the retention window of _cleanup_tasks, in seconds: 24 * 3600
expire_seconds == 86400

\* "task.finished_at and (now - task.finished_at) > expire_seconds": None and
\* 0.0 are falsy
Stale(task) ==
  /\ task.finished_at # NoTime /\ task.finished_at[1] # 0
  /\ now - task.finished_at[1] > expire_seconds

\* a sweep that also removes the jobs that finished exactly a window ago
CleanupAtWindow(ts) ==
  [t \in DOMAIN ts |->
     IF ts[t].finished_at # NoTime /\ ts[t].finished_at[1] # 0
          /\ now - ts[t].finished_at[1] >= expire_seconds
       THEN [ts[t] EXCEPT !.indexed = FALSE] ELSE ts[t]]

\* _cleanup_tasks: the jobs after the sweep
_cleanup_tasks(ts) ==
  [t \in DOMAIN ts |->
     IF ts[t].indexed /\ Stale(ts[t]) THEN [ts[t] EXCEPT !.indexed = FALSE] ELSE ts[t]]

\* notes: the notifications delivered to the requester, in order
NewHist ==
  [cq |-> FALSE, invoked |-> 0, start_writes |-> 0, fin_writes |-> 0, notes |-> <<>>]

\* the report dictionary auto_answer_with_report starts from (lines 734-746)
NewReport ==
  [success |-> FALSE, status |-> "error", message |-> "",
   stats |-> [total |-> 0, answered |-> 0, missing |-> 0]]

\* what one call of auto_answer_with_report comes to: the report returned, the
\* requests sent to the platform, and the status of the reply to the
\* submission (<<>> when none was received)
NoOutcome ==
  [report |-> [NewReport EXCEPT !.status = "unset"], requests |-> {}, submit_status |-> <<>>]

\* locals of _execute_task_sync; net is the set of request kinds the bot created
\* at line 618 has issued, last the latest call of auto_answer_with_report
\* (last.report is the local variable report), failure_examples the length of
\* that list, post_failed the number of chapters whose submission was answered
\* with a status other than 200; session is how the session was established
\* (lines 620-622), course whether the course id was in the fetched list
\* (lines 627-629), selected whether lines 636-648 computed a selection, calls
\* the number of calls of auto_answer_with_report at line 672
NoPipe ==
  [stage |-> "none", n |-> 0, sel |-> <<>>, inflight |-> FALSE, net |-> {},
   success_count |-> 0, fail_count |-> 0, submit_failed |-> 0,
   failure_examples |-> 0, stopped_reason |-> "None",
   canceled |-> FALSE, result |-> "none", error |-> "None",
   last |-> NoOutcome, post_failed |-> 0,
   session |-> "none", course |-> "none", selected |-> FALSE, calls |-> 0]

IdleWorker == [pc |-> "idle", task |-> 0, st |-> NoPipe]

\* the selections (mode, spec) commands of the scheduler runs carry
T_2_1 == <<"2", "-", "1">>
Selections ==
  { [mode |-> "all", spec |-> <<>>],
    [mode |-> "range", spec |-> T_2_1],
    [mode |-> "range", spec |-> <<>>] }

\* __init__: no worker loop exists; rounds counts the executions of the loop
\* at lines 220-221, _workers is len(self._workers)
NoPool == [_workers_started |-> FALSE, _workers |-> 0, rounds |-> 0]

\* a variant that creates worker loops at every call
EnsureWorkersEveryCall(p) ==
  [_workers_started |-> TRUE, _workers |-> p._workers + _max_concurrency,
   rounds |-> p.rounds + 1]

\* _ensure_workers: it has no suspension point, so it is one step of the
\* command that calls it
_ensure_workers(p) ==
  IF p._workers_started THEN p
  ELSE [_workers_started |-> TRUE, _workers |-> p._workers + _max_concurrency,
        rounds |-> p.rounds + 1]

\* _on_loaded
OnLoaded ==
  /\ pool' = _ensure_workers(pool)
  /\ UNCHANGED <<now, config, storeVars, schedVars, quizVars>>

\* Fernet: a token carries the plaintext and the time of its encryption
_encrypt(text) == [plain |-> text, ts |-> now]
_decrypt(token) == token.plain

\* the stored record of a user bound before the run starts
BoundBefore(u) ==
  [username |-> "a", password |-> _encrypt("p"), bound_at |-> now, updated_at |-> now]

NoBind == [qq_id |-> 0, username |-> "", ok |-> TRUE]

\* ------------------------------------------------------------------ binding store
\* BindingStore.bind: the bindings after the call.  Both _now_str() calls of a
\* first bind fall into the same second.
bindReplacingUsername(qq_id, username, password) ==
  [u \in DOMAIN bindings \cup {qq_id} |->
     IF u # qq_id THEN bindings[u]
     ELSE [username |-> username, password |-> _encrypt(password),
           bound_at |-> IF qq_id \in DOMAIN bindings THEN bindings[qq_id].bound_at ELSE now,
           updated_at |-> now]]

bindResettingBoundAt(qq_id, username, password) ==
  IF qq_id \in DOMAIN bindings /\ bindings[qq_id].username # username
    THEN bindings
    ELSE [u \in DOMAIN bindings \cup {qq_id} |->
            IF u # qq_id THEN bindings[u]
            ELSE [username |-> username, password |-> _encrypt(password),
                  bound_at |-> now, updated_at |-> now]]

bind(qq_id, username, password) ==
  IF qq_id \in DOMAIN bindings
    THEN IF bindings[qq_id].username # username
           THEN bindings
           ELSE [bindings EXCEPT ![qq_id].password = _encrypt(password),
                                 ![qq_id].updated_at = now]
    ELSE [u \in DOMAIN bindings \cup {qq_id} |->
            IF u # qq_id THEN bindings[u]
            ELSE [username |-> username, password |-> _encrypt(password),
                  bound_at |-> now, updated_at |-> now]]

\* BindingStore.bind: the first component of the pair returned
bindOk(qq_id, username) ==
  qq_id \notin DOMAIN bindings \/ bindings[qq_id].username = username

\* _handle_bind in a private chat with both arguments: BindingStore.bind with
\* its _save, which rewrites the file on the two accepting paths
Bind(qq_id, username, password) ==
  /\ bindings' = bind(qq_id, username, password)
  /\ disk' = IF bindOk(qq_id, username) THEN bindings' ELSE disk
  /\ firstBind' = IF qq_id \in DOMAIN bindings THEN firstBind
                  ELSE [u \in DOMAIN firstBind \cup {qq_id} |->
                          IF u = qq_id THEN username ELSE firstBind[u]]
  /\ lastBind' = [qq_id |-> qq_id, username |-> username, ok |-> bindOk(qq_id, username)]
  /\ pool' = _ensure_workers(pool)
  /\ UNCHANGED <<now, config, quizVars, schedVars>>

\* ------------------------------------------------------------------ commands
\* _has_active_task
HasActiveRunningOnly(qq) ==
  \E t \in TaskIds : tasks[t].indexed /\ tasks[t].qq_id = qq /\ tasks[t].status = "running"

_has_active_task(qq) ==
  \E t \in TaskIds :
    tasks[t].indexed /\ tasks[t].qq_id = qq /\ tasks[t].status \in {"queued", "running"}

\* the number of suspended _handle_start coroutines
RECURSIVE SumOver(_, _)
SumOver(f, S) ==
  IF S = {} THEN 0
  ELSE LET x == CHOOSE y \in S : TRUE IN f[x] + SumOver(f, S \ {x})
PendingCount == SumOver(pending, Users)

\* _handle_start, lines 424-448: up to the suspension in _resolve_course.
\* pre is what the environment decides: the channel check ("group_denied"),
\* the arguments ("usage") and the chapter cache ("need_chapters").  The text
\* returned is "need_bind" or pre unless the command goes on.
StartBegin(u, pre) ==
  /\ IF u \in DOMAIN bindings /\ pre = "ok"
       THEN /\ PendingCount < MaxPending
            /\ pending' = [pending EXCEPT ![u] = @ + 1]
       ELSE UNCHANGED pending
  /\ pool' = _ensure_workers(pool)
  /\ UNCHANGED <<now, config, quizVars, storeVars, tasks, queue, wk, hist>>

\* _handle_start, lines 445-478: the text returned once _resolve_course is back
\* (resolved: it did not raise), for a command of user qq carrying sel
StartReply(qq, sel, resolved) ==
  IF ~resolved THEN "course_error"
  ELSE IF sel.mode \in {"explicit", "range"} /\ sel.spec = <<>> THEN "need_spec"
  ELSE IF _has_active_task(qq) THEN "active"
  ELSE "queued_ok"

\* a start that inserts the job into the index and leaves the queue alone
StartResumeIndexOnly(u, sel, resolved) ==
  /\ pending[u] > 0
  /\ pending' = [pending EXCEPT ![u] = @ - 1]
  /\ IF StartReply(u, sel, resolved) = "queued_ok"
       THEN /\ Len(tasks) < MaxTasks
            /\ tasks' = Append(tasks, QuizTask(u, sel.mode, sel.spec))
            /\ hist' = Append(hist, NewHist)
            /\ UNCHANGED queue
       ELSE UNCHANGED <<tasks, queue, hist>>
  /\ UNCHANGED <<now, config, pool, quizVars, storeVars, wk>>

\* _handle_start, lines 445-478: from the return of _resolve_course to the reply.
\* No suspension point lies between _has_active_task and the end of the
\* "async with self._task_lock" block.  The arguments of the command are read
\* only from here on, so they are drawn here.
StartResume(u, sel, resolved) ==
  /\ pending[u] > 0
  /\ pending' = [pending EXCEPT ![u] = @ - 1]
  /\ IF StartReply(u, sel, resolved) = "queued_ok"
       THEN /\ Len(tasks) < MaxTasks
            /\ tasks' = Append(tasks, QuizTask(u, sel.mode, sel.spec))
            /\ queue' = Append(queue, Len(tasks) + 1)
            /\ hist' = Append(hist, NewHist)
       ELSE UNCHANGED <<tasks, queue, hist>>
  /\ UNCHANGED <<now, config, pool, quizVars, storeVars, wk>>

\* lines 498-506 and 557-565: the effect of a cancel on the task found
CancelNoTerminalCheck(t) ==
  IF tasks[t].status = "queued"
    THEN [tasks[t] EXCEPT !.cancel_event = TRUE, !.status = "canceled",
                          !.finished_at = <<now>>]
    ELSE [tasks[t] EXCEPT !.cancel_event = TRUE, !.status = "canceling"]

CancelEffect(t) ==
  IF tasks[t].status \in Terminal THEN tasks[t]
  ELSE IF tasks[t].status = "queued"
    THEN [tasks[t] EXCEPT !.cancel_event = TRUE, !.status = "canceled",
                          !.finished_at = <<now>>]
    ELSE [tasks[t] EXCEPT !.cancel_event = TRUE, !.status = "canceling"]

\* what an accepted cancel adds to the task's history
CancelHist(t) ==
  IF CancelEffect(t) = tasks[t] /\ tasks[t].status \in Terminal THEN hist[t]
  ELSE [hist[t] EXCEPT
          !.cq = @ \/ (tasks[t].status = "queued"),
          !.fin_writes = IF CancelEffect(t).finished_at # tasks[t].finished_at
                            \/ tasks[t].status = "queued" THEN @ + 1 ELSE @]

\* a reply that does not look at the owner of the task
CancelReplyAnyOwner(u, tid) ==
  IF tid = 0 THEN "usage"
  ELSE IF ~IndexHas(tasks, tid) THEN "not_found"
  ELSE IF tasks[tid].status \in Terminal THEN "finished"
  ELSE IF tasks[tid].status = "queued" THEN "canceled_queued"
  ELSE "cancel_requested"

\* _handle_cancel, the text returned; tid = 0 stands for a command without a task id
CancelReply(u, tid) ==
  IF tid = 0 THEN "usage"
  ELSE IF ~IndexHas(tasks, tid) \/ tasks[tid].qq_id # u THEN "not_found"
  ELSE IF tasks[tid].status \in Terminal THEN "finished"
  ELSE IF tasks[tid].status = "queued" THEN "canceled_queued"
  ELSE "cancel_requested"

\* _handle_cancel
_handle_cancel(u, tid) ==
  /\ IF CancelReply(u, tid) \in {"usage", "not_found"}
       THEN UNCHANGED <<tasks, hist>>
       ELSE /\ tasks' = [tasks EXCEPT ![tid] = CancelEffect(tid)]
            /\ hist' = [hist EXCEPT ![tid] = CancelHist(tid)]
  /\ pool' = _ensure_workers(pool)
  /\ UNCHANGED <<now, config, quizVars, storeVars, queue, pending, wk>>

\* a reply that does not ask whether the sender is an administrator
AdminCancelReplyNoAdminCheck(private, is_admin, tid) ==
  IF ~private THEN "private_only"
  ELSE IF tid = 0 THEN "usage"
  ELSE IF ~IndexHas(_cleanup_tasks(tasks), tid) THEN "not_found"
  ELSE IF tasks[tid].status \in Terminal THEN "finished"
  ELSE IF tasks[tid].status = "queued" THEN "canceled_queued"
  ELSE "cancel_requested"

\* on_admin_command with the arguments "取消 <id>" and _admin_cancel, the text returned
AdminCancelReply(private, is_admin, tid) ==
  IF ~private THEN "private_only"
  ELSE IF ~is_admin THEN "admin_only"
  ELSE IF tid = 0 THEN "usage"
  ELSE IF ~IndexHas(_cleanup_tasks(tasks), tid) THEN "not_found"
  ELSE IF tasks[tid].status \in Terminal THEN "finished"
  ELSE IF tasks[tid].status = "queued" THEN "canceled_queued"
  ELSE "cancel_requested"

\* on_admin_command with the arguments "取消 <id>", and _admin_cancel; the
\* sweep of line 304 comes first
AdminCancel(private, is_admin, tid) ==
  /\ IF AdminCancelReply(private, is_admin, tid)
          \in {"private_only", "admin_only", "usage", "not_found"}
       THEN /\ tasks' = _cleanup_tasks(tasks)
            /\ UNCHANGED hist
       ELSE /\ tasks' = [_cleanup_tasks(tasks) EXCEPT ![tid] = CancelEffect(tid)]
            /\ hist' = [hist EXCEPT ![tid] = CancelHist(tid)]
  /\ pool' = _ensure_workers(pool)
  /\ UNCHANGED <<now, config, quizVars, storeVars, queue, pending, wk>>

\* on_admin_command with the arguments help, list, detail <id>, bindings
AdminQueries == {"help", "list", "detail", "bindings"}

\* on_admin_command, the text returned for those arguments
AdminQueryReply(private, is_admin, cmd, tid) ==
  IF ~private THEN "private_only"
  ELSE IF ~is_admin THEN "admin_only"
  ELSE IF cmd = "list"
    THEN (IF \A t \in TaskIds : ~IndexHas(_cleanup_tasks(tasks), t)
            THEN "no_tasks" ELSE "task_list")
  ELSE IF cmd = "detail"
    THEN (IF tid = 0 THEN "usage"
          ELSE IF ~IndexHas(_cleanup_tasks(tasks), tid) THEN "not_found"
          ELSE "task_detail")
  ELSE IF cmd = "bindings"
    THEN (IF DOMAIN bindings = {} THEN "no_bindings" ELSE "binding_list")
  ELSE "help"

\* on_admin_command with those arguments: the sweep of line 304 and the reply
AdminQuery(private, is_admin, cmd, tid) ==
  /\ pool' = _ensure_workers(pool)
  /\ tasks' = _cleanup_tasks(tasks)
  /\ UNCHANGED <<now, config, quizVars, storeVars, queue, pending, wk, hist>>

\* on_quiz_command: the sweep of line 238, then the handler of the command.
\* cmd: "help" (also for the commands that only read), "start" (_handle_start
\* up to its suspension, pre as in StartBegin), "cancel" (_handle_cancel of
\* the job tid, looked up in the index after the sweep)
QuizCommands == {"help", "start", "cancel"}

on_quiz_command(u, cmd, pre, tid) ==
  LET swept == _cleanup_tasks(tasks) IN
  /\ pool' = _ensure_workers(pool)
  /\ IF cmd = "start" /\ u \in DOMAIN bindings /\ pre = "ok"
       THEN /\ PendingCount < MaxPending
            /\ pending' = [pending EXCEPT ![u] = @ + 1]
       ELSE UNCHANGED pending
  /\ IF cmd = "cancel" /\ IndexHas(swept, tid)
          /\ CancelReply(u, tid) \notin {"usage", "not_found"}
       THEN /\ tasks' = [swept EXCEPT ![tid] = CancelEffect(tid)]
            /\ hist' = [hist EXCEPT ![tid] = CancelHist(tid)]
       ELSE /\ tasks' = swept
            /\ UNCHANGED hist
  /\ UNCHANGED <<now, config, quizVars, storeVars, queue, wk>>

\* ------------------------------------------------------------------ workers
\* _worker_loop, lines 582-587, and _run_task, lines 593-594: from the return
\* of queue.get() to the first suspension (the start notification)
DequeueIgnoringCancel(w) ==
  LET t == Head(queue) IN
  /\ tasks' = [tasks EXCEPT ![t].status = "running", ![t].started_at = <<now>>]
  /\ hist' = [hist EXCEPT ![t].start_writes = @ + 1]
  /\ wk' = [wk EXCEPT ![w] = [pc |-> "notify_start", task |-> t, st |-> NoPipe]]

DequeueEffect(w) ==
  LET t == Head(queue) IN
  IF tasks[t].cancel_event
    THEN /\ tasks' = [tasks EXCEPT ![t].status = "canceled", ![t].finished_at = <<now>>]
         /\ hist' = [hist EXCEPT ![t].fin_writes = @ + 1]
         /\ UNCHANGED wk
    ELSE /\ tasks' = [tasks EXCEPT ![t].status = "running", ![t].started_at = <<now>>]
         /\ hist' = [hist EXCEPT ![t].start_writes = @ + 1]
         /\ wk' = [wk EXCEPT ![w] = [pc |-> "notify_start", task |-> t, st |-> NoPipe]]

\* a worker that takes the job enqueued last
WorkerDequeueLast(w) ==
  LET t == queue[Len(queue)] IN
  /\ w <= pool._workers
  /\ wk[w].pc = "idle"
  /\ queue # <<>>
  /\ queue' = SubSeq(queue, 1, Len(queue) - 1)
  /\ tasks' = [tasks EXCEPT ![t].status = "running", ![t].started_at = <<now>>]
  /\ hist' = [hist EXCEPT ![t].start_writes = @ + 1]
  /\ wk' = [wk EXCEPT ![w] = [pc |-> "notify_start", task |-> t, st |-> NoPipe]]
  /\ UNCHANGED <<now, config, pool, quizVars, storeVars, pending>>

WorkerDequeue(w) ==
  /\ w <= pool._workers
  /\ wk[w].pc = "idle"
  /\ queue # <<>>
  /\ queue' = Tail(queue)
  /\ DequeueEffect(w)
  /\ UNCHANGED <<now, config, pool, quizVars, storeVars, pending>>

\* _send_text: "ok" the first send_message returns, "fallback" it raises and
\* the second returns, "raise" both raise
SendOutcomes == {"ok", "fallback", "raise"}

\* _run_task, line 595 (outside the try), then asyncio.to_thread at line 598.
\* An exception of _send_text leaves _run_task and _worker_loop: the worker ends.
NotifyStart(w, out) ==
  /\ wk[w].pc = "notify_start"
  /\ IF out = "raise"
       THEN /\ wk' = [wk EXCEPT ![w].pc = "dead"]
            /\ UNCHANGED hist
       ELSE /\ wk' = [wk EXCEPT ![w].pc = "pipeline", ![w].st = [NoPipe EXCEPT !.stage = "session"]]
            /\ hist' = [hist EXCEPT ![wk[w].task].invoked = @ + 1,
                                    ![wk[w].task].notes = Append(@, "start")]
  /\ UNCHANGED <<now, config, pool, quizVars, storeVars, tasks, queue, pending>>

\* the result dictionary (or the exception) _execute_task_sync ends with
Returned(st, success, error, canceled) ==
  [st EXCEPT !.stage = "done", !.result = IF success THEN "success" ELSE "failure",
             !.error = error, !.canceled = canceled]
Raised(st, error) ==
  [st EXCEPT !.stage = "done", !.result = "raise", !.error = error]

\* a pipeline head that goes on to the course list when the login failed
PipeSessionIgnoringLogin(w, out) ==
  LET st == wk[w].st IN
  /\ wk[w].pc = "pipeline" /\ st.stage = "session"
  /\ wk' = [wk EXCEPT ![w].st =
       [st EXCEPT !.stage = "discover",
                  !.session = IF out \in {"valid", "login_ok"} THEN out ELSE "login_failed",
                  !.net = @ \cup {"session_check", "login"}]]
  /\ UNCHANGED <<now, config, pool, quizVars, storeVars, tasks, queue, pending, hist>>

\* _execute_task_sync, lines 614-624: binding, _create_bot, session check and login.
\* out: "raise" (_create_bot or load_question_bank raises), "valid" (the session
\* is still authenticated), "login_ok", "login_failed"
PipeSession(w, out) ==
  LET t == wk[w].task
      st == wk[w].st
  IN
  /\ wk[w].pc = "pipeline" /\ st.stage = "session"
  /\ wk' = [wk EXCEPT ![w].st =
       IF tasks[t].qq_id \notin DOMAIN bindings
         THEN Returned(st, FALSE, "no_binding", FALSE)
       ELSE IF out = "raise"
         THEN Raised(st, "bot_error")
       ELSE IF out = "valid"
         THEN [st EXCEPT !.stage = "discover", !.session = "valid",
                         !.net = @ \cup {"session_check"}]
       ELSE IF out = "login_ok"
         THEN [st EXCEPT !.stage = "discover", !.session = "login_ok",
                         !.net = @ \cup {"session_check", "login"}]
       ELSE Returned([st EXCEPT !.session = "login_failed",
                                !.net = @ \cup {"session_check", "login"}],
                     FALSE, "login_failed", FALSE)]
  /\ UNCHANGED <<now, config, pool, quizVars, storeVars, tasks, queue, pending, hist>>

\* _execute_task_sync, lines 626-634: course list and chapter list.
\* found: the course id is in the fetched list; n: the length of the chapter list
PipeDiscover(w, found, n) ==
  LET st == wk[w].st IN
  /\ wk[w].pc = "pipeline" /\ st.stage = "discover"
  /\ wk' = [wk EXCEPT ![w].st =
       IF ~found
         THEN Returned([st EXCEPT !.course = "missing", !.net = @ \cup {"courses"}],
                       FALSE, "course_missing", FALSE)
       ELSE IF n = 0
         THEN Returned([st EXCEPT !.course = "found",
                                  !.net = @ \cup {"courses", "chapters"}],
                       FALSE, "no_chapters", FALSE)
       ELSE [st EXCEPT !.stage = "select", !.n = n, !.course = "found",
                       !.net = @ \cup {"courses", "chapters"}]]
  /\ UNCHANGED <<now, config, pool, quizVars, storeVars, tasks, queue, pending, hist>>

\* the chapter positions (1-based) the mode selects from a list of n chapters;
\* completed is the set of positions whose exam id is in bot.completed_chapters
SelectChapters(mode, spec, n, completed) ==
  IF mode = "incomplete" THEN SortedSeq((1..n) \ completed)
  ELSE IF mode = "explicit"
    THEN SelectSeq(_parse_index_list(spec).indices, LAMBDA i : 0 < i /\ i <= n)
  ELSE IF mode = "range"
    THEN SortedSeq(_parse_range(spec).start .. Min(_parse_range(spec).end, n))
  ELSE SortedSeq(1..n)

\* a selection step that enters the chapter loop with an empty selection
PipeSelectKeepsEmpty(w, completed) ==
  LET t == wk[w].task
      task == tasks[t]
      st == wk[w].st
      sel == SelectChapters(task.mode, task.spec, st.n, completed)
  IN
  /\ wk[w].pc = "pipeline" /\ st.stage = "select"
  /\ task.mode # "incomplete" => completed = {}
  /\ wk' = [wk EXCEPT ![w].st = [st EXCEPT !.stage = "loop", !.sel = sel, !.selected = TRUE]]
  /\ UNCHANGED <<now, config, pool, quizVars, storeVars, tasks, queue, pending, hist>>

\* _execute_task_sync, lines 636-651: the selection
PipeSelect(w, completed) ==
  LET t == wk[w].task
      task == tasks[t]
      st == IF task.mode = "incomplete"
              THEN [wk[w].st EXCEPT !.net = @ \cup {"session_check", "courses", "completions"}]
              ELSE wk[w].st
      sel == SelectChapters(task.mode, task.spec, st.n, completed)
  IN
  /\ wk[w].pc = "pipeline" /\ st.stage = "select"
  /\ task.mode # "incomplete" => completed = {}
  /\ wk' = [wk EXCEPT ![w].st =
       IF task.mode \notin {"incomplete", "explicit", "range", "all"}
         THEN Returned(st, FALSE, "unknown_mode", FALSE)
       ELSE IF task.mode = "range" /\ ~_parse_range(task.spec).ok
         THEN Raised(st, _parse_range(task.spec).error)
       ELSE IF task.mode = "explicit" /\ ~_parse_index_list(task.spec).ok
         THEN Raised(st, "invalid_literal")
       ELSE IF sel = <<>>
         THEN Returned([st EXCEPT !.selected = TRUE], FALSE, "no_selection", FALSE)
       ELSE [st EXCEPT !.stage = "loop", !.sel = sel, !.selected = TRUE]]
  /\ UNCHANGED <<now, config, pool, quizVars, storeVars, tasks, queue, pending, hist>>

\* _execute_task_sync, lines 698-719: the stop reason and the result
FinishIgnoringFailures(st) ==
  Returned(st, st.stopped_reason = "None", st.stopped_reason, st.canceled)

Finish(st) ==
  LET stopped == IF st.stopped_reason = "None" /\ st.fail_count > 0
                   THEN IF st.failure_examples > 0
                          THEN "chapters_failed" ELSE "failed_count"
                   ELSE st.stopped_reason
  IN  Returned([st EXCEPT !.stopped_reason = stopped],
               st.fail_count = 0 /\ stopped = "None", stopped, st.canceled)

\* the number of chapters whose processing has been started
Started(st) == st.success_count + st.fail_count + (IF st.inflight THEN 1 ELSE 0)

\* _execute_task_sync, lines 666-670: the head of one iteration of the chapter
\* loop, where the cancellation flag is read
LoopHeadIgnoringCancel(st, cancel_event) ==
  IF Started(st) = Len(st.sel) THEN Finish(st)
  ELSE [st EXCEPT !.stage = "chapter", !.inflight = TRUE, !.calls = @ + 1]

LoopHead(st, cancel_event) ==
  IF Started(st) = Len(st.sel) THEN Finish(st)
  ELSE IF cancel_event
    THEN Finish([st EXCEPT !.stopped_reason = "task_canceled", !.canceled = TRUE])
  ELSE [st EXCEPT !.stage = "chapter", !.inflight = TRUE, !.calls = @ + 1]

PipeLoopHead(w) ==
  /\ wk[w].pc = "pipeline" /\ wk[w].st.stage = "loop"
  /\ wk' = [wk EXCEPT ![w].st = LoopHead(wk[w].st, tasks[wk[w].task].cancel_event)]
  /\ UNCHANGED <<now, config, pool, quizVars, storeVars, tasks, queue, pending, hist>>

\* ------------------------------------------------------------------ answers
\* the number of errors at which api_search stops asking the Oracle
ErrorLimit == 3

\* QuizBot.__init__, lines 59-72
NewBot == [question_bank |-> <<>>, api_available |-> TRUE, api_error_count |-> 0]

\* nothing asked yet.  calls: find_answer calls made; requests: requests sent
\* to the Oracle; streak: the latest consecutive requests that ended in an
\* error; tripped: streak has reached three; last: the latest call, with the
\* reply the Oracle gives to a request for its question and the number of
\* requests sent during it
NoneAsked ==
  [calls |-> 0, requests |-> 0, streak |-> 0, tripped |-> FALSE,
   last |-> [question |-> "", oracle |-> "", answer |-> "None", sent |-> 0]]

\* What a request to the Oracle comes to: "answer" (200 carrying the answer
\* OracleAnswer), "no_answer" (200 without one), a status other than 200, a
\* timeout, a connection failure, "malformed" (200 whose body cannot be read)
OracleAnswer == "A"
OracleErrors == {"http_404", "http_401", "http_500", "timeout", "conn_error", "malformed"}
OracleReplies == {"answer", "no_answer"} \cup OracleErrors

\* QuizBot.api_search on bot b when the Oracle replies reply:
\* the bot afterwards, the value returned, the number of requests sent
ApiSearchNeverDisabled(b, reply) ==
  IF reply = "answer"
    THEN [bot |-> [b EXCEPT !.api_error_count = 0], answer |-> OracleAnswer, sent |-> 1]
  ELSE IF reply = "no_answer"
    THEN [bot |-> b, answer |-> "None", sent |-> 1]
  ELSE [bot |-> [b EXCEPT !.api_error_count = @ + 1], answer |-> "None", sent |-> 1]

\* a search without the two early returns of lines 377-382
ApiSearchUnguarded(b, reply) ==
  IF reply = "answer"
    THEN [bot |-> [b EXCEPT !.api_error_count = 0], answer |-> OracleAnswer, sent |-> 1]
  ELSE LET count == IF reply \in OracleErrors
                      THEN b.api_error_count + 1 ELSE b.api_error_count
       IN  [bot |-> [b EXCEPT !.api_error_count = count,
                              !.api_available = IF count >= ErrorLimit THEN FALSE ELSE @],
            answer |-> "None", sent |-> 1]

api_search(b, reply) ==
  IF ~b.api_available THEN [bot |-> b, answer |-> "None", sent |-> 0]
  ELSE IF b.api_error_count >= ErrorLimit THEN [bot |-> b, answer |-> "None", sent |-> 0]
  ELSE IF reply = "answer"
    THEN [bot |-> [b EXCEPT !.api_error_count = 0], answer |-> OracleAnswer, sent |-> 1]
  ELSE LET count == IF reply \in OracleErrors
                      THEN b.api_error_count + 1 ELSE b.api_error_count
       IN  [bot |-> [b EXCEPT !.api_error_count = count,
                              !.api_available = IF count >= ErrorLimit THEN FALSE ELSE @],
            answer |-> "None", sent |-> 1]

\* the non-empty answers recorded for a question text, in the order the loops
\* of find_answer (lines 481-486) meet them
RECURSIVE Flatten(_)
Flatten(bank) ==
  IF bank = <<>> THEN <<>> ELSE Head(bank) \o Flatten(Tail(bank))

Recorded(bank, question_text) ==
  SelectSeq(Flatten(bank),
            LAMBDA q : q.question_text = question_text /\ q.selected_answer # "")

\* QuizBot.find_answer
FindAnswerOracleFirst(b, question_text, reply) ==
  IF api_search(b, reply).answer # "None" \/ Recorded(b.question_bank, question_text) = <<>>
    THEN api_search(b, reply)
    ELSE [bot |-> api_search(b, reply).bot,
          answer |-> Recorded(b.question_bank, question_text)[1].selected_answer,
          sent |-> api_search(b, reply).sent]

find_answer(b, question_text, reply) ==
  IF Recorded(b.question_bank, question_text) # <<>>
    THEN [bot |-> b, answer |-> Recorded(b.question_bank, question_text)[1].selected_answer,
          sent |-> 0]
    ELSE api_search(b, reply)

\* one call of find_answer by the chapter loop (smart_quiz_api.py line 795)
FindAnswer(question_text, reply) ==
  LET r == find_answer(bot, question_text, reply)
      streak == IF r.sent = 0 THEN asked.streak
                ELSE IF reply \in OracleErrors THEN asked.streak + 1 ELSE 0
  IN
  /\ asked.calls < MaxCalls
  /\ bot' = r.bot
  /\ asked' = [calls |-> asked.calls + 1,
               requests |-> asked.requests + r.sent,
               streak |-> streak,
               tripped |-> asked.tripped \/ streak >= 3,
               last |-> [question |-> question_text, oracle |-> reply,
                         answer |-> r.answer, sent |-> r.sent]]
  /\ UNCHANGED <<now, config, pool, storeVars, schedVars, auth>>

\* ------------------------------------------------------------------ one chapter
\* How one question of the page comes out in the loop of lines 775-813:
\* "answered" (find_answer gave an answer and the input has a name), "missing"
\* (find_answer gave none), "unnamed" (an answer, but no named input to carry
\* it), "untitled" (no title element: the question is skipped uncounted)
Resolutions == {"answered", "missing", "unnamed", "untitled"}

\* what the request for the question page comes to
Pages == {"ok", "http_error", "no_form", "raise"}

\* the reply to the submission: an HTTP status, or NoResponse when the request raises
NoResponse == 0
SubmitReplies == {200, 500, NoResponse}

Count(qs, k) == Cardinality({i \in 1..Len(qs) : qs[i] = k})

\* answered / total < min_answer_rate, the rate given in percent
RateBelow(answered, total, min_answer_rate) ==
  answered * 100 < min_answer_rate * total

\* QuizBot.auto_answer_with_report.  page: the question page request; qs: the
\* questions of the page in order; reply: what a submission would be answered.
AutoAnswerAlwaysSubmit(page, qs, reply, submit, strict, min_answer_rate) ==
  LET stats == [total |-> Len(qs) - Count(qs, "untitled"),
                answered |-> Count(qs, "answered"),
                missing |-> Count(qs, "missing")]
      early(msg) == [report |-> [NewReport EXCEPT !.message = msg],
                     requests |-> {"questions"}, submit_status |-> <<>>]
      posted(r, status) == [report |-> r, requests |-> {"questions", "submit"},
                            submit_status |-> status]
      counted == [NewReport EXCEPT !.stats = stats]
  IN
  IF page = "raise" THEN early("exception")
  ELSE IF page = "http_error" THEN early("page_http")
  ELSE IF page = "no_form" THEN early("no_form")
  ELSE IF qs = <<>> THEN early("no_question_list")
  ELSE IF stats.answered = 0
    THEN [report |-> [counted EXCEPT !.message = "no_answers"],
          requests |-> {"questions"}, submit_status |-> <<>>]
  ELSE IF reply = 200
    THEN posted([counted EXCEPT !.status = "submitted", !.message = "submitted",
                                !.success = TRUE], <<reply>>)
  ELSE IF reply = NoResponse
    THEN posted([counted EXCEPT !.message = "exception"], <<>>)
  ELSE posted([counted EXCEPT !.message = "submit_http"], <<reply>>)

AutoAnswerRateOnlyStrict(page, qs, reply, submit, strict, min_answer_rate) ==
  LET stats == [total |-> Len(qs) - Count(qs, "untitled"),
                answered |-> Count(qs, "answered"),
                missing |-> Count(qs, "missing")]
      early(msg) == [report |-> [NewReport EXCEPT !.message = msg],
                     requests |-> {"questions"}, submit_status |-> <<>>]
      kept(r) == [report |-> r, requests |-> {"questions"}, submit_status |-> <<>>]
      posted(r, status) == [report |-> r, requests |-> {"questions", "submit"},
                            submit_status |-> status]
      counted == [NewReport EXCEPT !.stats = stats]
  IN
  IF page = "raise" THEN early("exception")
  ELSE IF page = "http_error" THEN early("page_http")
  ELSE IF page = "no_form" THEN early("no_form")
  ELSE IF qs = <<>> THEN early("no_question_list")
  ELSE IF stats.total = 0 THEN kept([counted EXCEPT !.message = "no_questions"])
  ELSE IF strict /\ stats.missing > 0
    THEN kept([counted EXCEPT !.status = "insufficient_answers",
                              !.message = "strict_missing"])
  ELSE IF strict /\ RateBelow(stats.answered, stats.total, min_answer_rate)
    THEN kept([counted EXCEPT !.status = "insufficient_answers",
                              !.message = "rate_low"])
  ELSE IF ~submit
    THEN kept([counted EXCEPT !.status = "prepared", !.message = "prepared",
                              !.success = TRUE])
  ELSE IF stats.answered = 0 THEN kept([counted EXCEPT !.message = "no_answers"])
  ELSE IF reply = 200
    THEN posted([counted EXCEPT !.status = "submitted", !.message = "submitted",
                                !.success = TRUE], <<reply>>)
  ELSE IF reply = NoResponse
    THEN posted([counted EXCEPT !.message = "exception"], <<>>)
  ELSE posted([counted EXCEPT !.message = "submit_http"], <<reply>>)

\* a chapter that is submitted although answer_data is empty
AutoAnswerSubmitsEmpty(page, qs, reply, submit, strict, min_answer_rate) ==
  LET stats == [total |-> Len(qs) - Count(qs, "untitled"),
                answered |-> Count(qs, "answered"),
                missing |-> Count(qs, "missing")]
      early(msg) == [report |-> [NewReport EXCEPT !.message = msg],
                     requests |-> {"questions"}, submit_status |-> <<>>]
      kept(r) == [report |-> r, requests |-> {"questions"}, submit_status |-> <<>>]
      posted(r, status) == [report |-> r, requests |-> {"questions", "submit"},
                            submit_status |-> status]
      counted == [NewReport EXCEPT !.stats = stats]
  IN
  IF page = "raise" THEN early("exception")
  ELSE IF page = "http_error" THEN early("page_http")
  ELSE IF page = "no_form" THEN early("no_form")
  ELSE IF qs = <<>> THEN early("no_question_list")
  ELSE IF stats.total = 0 THEN kept([counted EXCEPT !.message = "no_questions"])
  ELSE IF strict /\ stats.missing > 0
    THEN kept([counted EXCEPT !.status = "insufficient_answers",
                              !.message = "strict_missing"])
  ELSE IF RateBelow(stats.answered, stats.total, min_answer_rate)
    THEN kept([counted EXCEPT !.status = "insufficient_answers",
                              !.message = "rate_low"])
  ELSE IF ~submit
    THEN kept([counted EXCEPT !.status = "prepared", !.message = "prepared",
                              !.success = TRUE])
  ELSE IF reply = 200
    THEN posted([counted EXCEPT !.status = "submitted", !.message = "submitted",
                                !.success = TRUE], <<reply>>)
  ELSE IF reply = NoResponse
    THEN posted([counted EXCEPT !.message = "exception"], <<>>)
  ELSE posted([counted EXCEPT !.message = "submit_http"], <<reply>>)

auto_answer_with_report(page, qs, reply, submit, strict, min_answer_rate) ==
  LET stats == [total |-> Len(qs) - Count(qs, "untitled"),
                answered |-> Count(qs, "answered"),
                missing |-> Count(qs, "missing")]
      early(msg) == [report |-> [NewReport EXCEPT !.message = msg],
                     requests |-> {"questions"}, submit_status |-> <<>>]
      kept(r) == [report |-> r, requests |-> {"questions"}, submit_status |-> <<>>]
      posted(r, status) == [report |-> r, requests |-> {"questions", "submit"},
                            submit_status |-> status]
      counted == [NewReport EXCEPT !.stats = stats]
  IN
  IF page = "raise" THEN early("exception")
  ELSE IF page = "http_error" THEN early("page_http")
  ELSE IF page = "no_form" THEN early("no_form")
  ELSE IF qs = <<>> THEN early("no_question_list")
  ELSE IF stats.total = 0 THEN kept([counted EXCEPT !.message = "no_questions"])
  ELSE IF strict /\ stats.missing > 0
    THEN kept([counted EXCEPT !.status = "insufficient_answers",
                              !.message = "strict_missing"])
  ELSE IF RateBelow(stats.answered, stats.total, min_answer_rate)
    THEN kept([counted EXCEPT !.status = "insufficient_answers",
                              !.message = "rate_low"])
  ELSE IF ~submit
    THEN kept([counted EXCEPT !.status = "prepared", !.message = "prepared",
                              !.success = TRUE])
  ELSE IF stats.answered = 0 THEN kept([counted EXCEPT !.message = "no_answers"])
  ELSE IF reply = 200
    THEN posted([counted EXCEPT !.status = "submitted", !.message = "submitted",
                                !.success = TRUE], <<reply>>)
  ELSE IF reply = NoResponse
    THEN posted([counted EXCEPT !.message = "exception"], <<>>)
  ELSE posted([counted EXCEPT !.message = "submit_http"], <<reply>>)

\* dict.get(key): <<>> is None
ReportGet(report, key) == IF key \in DOMAIN report THEN <<report[key]>> ELSE <<>>

\* counters that keep every failure message
CountReportUncapped(st, report) ==
  IF report.success
    THEN [st EXCEPT !.success_count = @ + 1]
    ELSE [st EXCEPT
            !.fail_count = @ + 1,
            !.failure_examples = IF report.message # "" THEN @ + 1 ELSE @,
            !.submit_failed =
               IF /\ "http_status" \in DOMAIN report
                  /\ report.http_status \notin {0, 200}
                 THEN @ + 1 ELSE @,
            !.stopped_reason =
               IF report.status = "insufficient_answers" THEN report.message ELSE @]

\* _execute_task_sync, lines 685-694: the counters after a report
CountReport(st, report) ==
  IF report.success
    THEN [st EXCEPT !.success_count = @ + 1]
    ELSE [st EXCEPT
            !.fail_count = @ + 1,
            !.failure_examples = IF report.message # "" /\ @ < 3 THEN @ + 1 ELSE @,
            !.submit_failed =
               IF /\ ReportGet(report, "http_status") # <<>>
                  /\ ReportGet(report, "http_status")[1] # 0
                  /\ ReportGet(report, "http_status")[1] # 200
                 THEN @ + 1 ELSE @,
            !.stopped_reason =
               IF report.status = "insufficient_answers" THEN report.message ELSE @]

\* _execute_task_sync, lines 693-696: the loop is left after this report
BreaksNever(report, strict_mode) == FALSE

BreaksOnAnyFailure(report, strict_mode) == ~report.success

Breaks(report, strict_mode) ==
  ~report.success /\ report.status = "insufficient_answers" /\ strict_mode

\* _execute_task_sync, lines 672-696: one chapter and the bookkeeping after it
PipeChapter(w, page, qs, reply) ==
  LET t == wk[w].task
      st == wk[w].st
      out == auto_answer_with_report(page, qs, reply, config.auto_submit,
                                     config.strict_mode, config.min_answer_rate)
      counted == [CountReport(st, out.report) EXCEPT
                    !.inflight = FALSE,
                    !.net = @ \cup out.requests,
                    !.last = out,
                    !.post_failed = IF out.submit_status # <<>> /\ out.submit_status[1] # 200
                                      THEN @ + 1 ELSE @]
  IN
  /\ wk[w].pc = "pipeline" /\ st.stage = "chapter"
  /\ IF Breaks(out.report, config.strict_mode)
       THEN wk' = [wk EXCEPT ![w].st = Finish(counted)]
       ELSE wk' = [wk EXCEPT ![w].st = [counted EXCEPT !.stage = "loop"]]
  /\ UNCHANGED <<now, config, pool, quizVars, storeVars, tasks, queue, pending, hist>>

\* _execute_task_sync, lines 704-712: the summary of the locals st (without
\* the sums of the missing and invalid questions)
Summary(st) ==
  [success |-> st.success_count, failed |-> st.fail_count,
   total |-> st.success_count + st.fail_count,
   submit_failed |-> st.submit_failed, stopped |-> st.stopped_reason]

\* _run_task, lines 599-609: the task after asyncio.to_thread has returned or
\* raised with the pipeline locals st
RunTaskNoFinally(task, st) ==
  [task EXCEPT !.status = IF st.result = "raise" THEN "failed"
                          ELSE IF st.canceled THEN "canceled"
                          ELSE IF st.result = "success" THEN "completed" ELSE "failed",
               !.error = st.error]

RunTaskEffect(task, st) ==
  [task EXCEPT !.status = IF st.result = "raise" THEN "failed"
                          ELSE IF st.canceled THEN "canceled"
                          ELSE IF st.result = "success" THEN "completed" ELSE "failed",
               !.error = st.error,
               !.finished_at = <<now>>]

RunTaskFinish(w) ==
  LET t == wk[w].task IN
  /\ wk[w].pc = "pipeline" /\ wk[w].st.stage = "done"
  /\ tasks' = [tasks EXCEPT ![t] = RunTaskEffect(tasks[t], wk[w].st)]
  /\ hist' = [hist EXCEPT ![t].fin_writes = @ + 1]
  /\ wk' = [wk EXCEPT ![w].pc = "notify_final"]
  /\ UNCHANGED <<now, config, pool, quizVars, storeVars, queue, pending>>

\* _run_task, line 611, then _worker_loop's finally and the next queue.get()
NotifyFinal(w, out) ==
  /\ wk[w].pc = "notify_final"
  /\ IF out = "raise"
       THEN /\ wk' = [wk EXCEPT ![w].pc = "dead"]
            /\ UNCHANGED hist
       ELSE /\ wk' = [wk EXCEPT ![w] = IdleWorker]
            /\ hist' = [hist EXCEPT ![wk[w].task].notes = Append(@, "final")]
  /\ UNCHANGED <<now, config, pool, quizVars, storeVars, tasks, queue, pending>>

\* ------------------------------------------------------------------ login
\* SanSanZhiAutoLogin (auto_login.py), the base class of QuizBot.  PipeSession
\* above takes the outcome of analyze_network_request as an input; the
\* definitions here are that negotiation attempt by attempt.

\* Optional key: <<>> is None, <<"k">> a key
NoKey == <<>>
SomeKey == <<"k">>

\* get_csrf_token_and_key: the key found in the login page, a generated key
\* when the page holds none, None when the page is not served with status 200
\* or the request raises
get_csrf_token_and_key(page) == IF page = "ok" THEN SomeKey ELSE NoKey

\* generate_password_hash: the candidate list (the password is a str, so the
\* hashing does not raise); "pk" is password + key, "kp" key + password
generate_password_hash(key) ==
  <<"plain", "md5", "sha1", "sha256">>
    \o (IF key # NoKey THEN <<"md5_pk", "md5_kp", "sha1_pk", "sha256_pk">> ELSE <<>>)

\* A login response.  raised: the POST raised and there is no response.
\* json: "none" the body is not JSON, "object" it is a JSON object, "other" it
\* is another JSON value (array, string, number, null); code: the object's
\* "code" (2 is any other value or none), msg_ok: its "msg" contains the
\* success marker; status 302 stands for 302 and 303, to_login: the Location
\* contains "login"; success_kw / failure_kw: the body contains a keyword of
\* the list at line 254 / line 263
NoReply ==
  [raised |-> TRUE, json |-> "none", code |-> 2, msg_ok |-> FALSE, status |-> 200,
   to_login |-> FALSE, success_kw |-> FALSE, failure_kw |-> FALSE]
Responses ==
  {r \in [raised : {FALSE}, json : {"none", "object", "other"}, code : {0, 1, 2},
          msg_ok : BOOLEAN, status : {200, 302}, to_login : BOOLEAN,
          success_kw : BOOLEAN, failure_kw : BOOLEAN] :
     /\ r.json # "object" => (r.code = 2 /\ ~r.msg_ok)
     /\ r.status = 200 => ~r.to_login}
  \cup {NoReply}

\* test_login_with_password_format, lines 222-272.  A JSON value that is not
\* an object has no .get: the AttributeError leaves the inner try (which
\* catches JSONDecodeError only) and is caught at line 270.
test_login_with_password_format(r) ==
  IF r.raised THEN FALSE
  ELSE IF r.json = "other" THEN FALSE
  ELSE IF r.json = "object" /\ r.code = 1 /\ r.msg_ok THEN TRUE
  ELSE IF r.json = "object" /\ r.code = 0 THEN FALSE
  ELSE IF r.status = 302 /\ ~r.to_login THEN TRUE
  ELSE IF r.success_kw THEN TRUE
  ELSE IF r.failure_kw THEN FALSE
  ELSE FALSE

\* log: one entry per attempt made, delayed: human_like_delay ran after it
NoAuth ==
  [stage |-> "idle", key |-> NoKey, candidates |-> <<>>, log |-> <<>>,
   result |-> "none", last |-> NoReply]

\* a loop that goes on to the next candidate after a successful attempt
AfterAttemptNoEarlyReturn(a, ok) ==
  IF Len(a.log) < Len(a.candidates) THEN [a EXCEPT !.stage = "delay"]
  ELSE [a EXCEPT !.stage = "done", !.result = "False"]

\* analyze_network_request, lines 300-313: what follows the attempt that was
\* just logged (the index i of line 300 is Len(a.log) - 1)
AfterAttempt(a, ok) ==
  IF ok THEN [a EXCEPT !.stage = "done", !.result = "True"]
  ELSE IF Len(a.log) - 1 < Len(a.candidates) - 1 THEN [a EXCEPT !.stage = "delay"]
  ELSE [a EXCEPT !.stage = "done", !.result = "False"]

\* analyze_network_request, lines 284-297: the key and the candidates
NegotiateBegin(page) ==
  /\ auth.stage = "idle"
  /\ auth' = [auth EXCEPT !.stage = "attempt",
                          !.key = get_csrf_token_and_key(page),
                          !.candidates = generate_password_hash(get_csrf_token_and_key(page))]
  /\ UNCHANGED <<now, config, pool, storeVars, schedVars, bot, asked>>

\* analyze_network_request, lines 300-311: one iteration up to its delay
LoginAttempt(r) ==
  LET ok == test_login_with_password_format(r)
      entry == [encoding |-> auth.candidates[Len(auth.log) + 1], ok |-> ok,
                delayed |-> FALSE]
  IN
  /\ auth.stage = "attempt" /\ Len(auth.log) < Len(auth.candidates)
  /\ auth' = AfterAttempt([auth EXCEPT !.log = Append(@, entry), !.last = r], ok)
  /\ UNCHANGED <<now, config, pool, storeVars, schedVars, bot, asked>>

\* human_like_delay(2, 4) at line 309, then the next iteration
HumanLikeDelay ==
  /\ auth.stage = "delay"
  /\ auth' = [auth EXCEPT !.log[Len(auth.log)].delayed = TRUE, !.stage = "attempt"]
  /\ UNCHANGED <<now, config, pool, storeVars, schedVars, bot, asked>>

\* time passes: d seconds, up to the time horizon
Elapse(d, horizon) ==
  /\ now + d <= horizon
  /\ now' = now + d
  /\ UNCHANGED <<config, pool, storeVars, schedVars, quizVars>>

\* time passes
Tick ==
  /\ now < MaxClock
  /\ now' = now + 1
  /\ UNCHANGED <<config, pool, storeVars, schedVars, quizVars>>

\* ------------------------------------------------------------------ scheduler runs
DefaultConfig == [strict_mode |-> FALSE, auto_submit |-> TRUE, min_answer_rate |-> 0]

Init ==
  /\ now = 0
  /\ config = DefaultConfig
  /\ \E S \in {Users, Users \ {NumUsers}} : bindings = [u \in S |-> BoundBefore(u)]
  /\ disk = bindings
  /\ firstBind = [u \in DOMAIN bindings |-> bindings[u].username]
  /\ lastBind = NoBind
  /\ tasks = <<>>
  /\ queue = <<>>
  /\ pending = [u \in Users |-> 0]
  /\ wk = [w \in Workers |-> IdleWorker]
  /\ hist = <<>>
  /\ bot = NewBot
  /\ asked = NoneAsked
  /\ auth = NoAuth
  /\ pool = NoPool

StartPre == {"ok", "group_denied", "usage", "need_chapters"}
SessionOutcomes == {"raise", "valid", "login_ok", "login_failed"}

\* The chapters a run meets, each a triple <<page, qs, reply>>.  A page that
\* cannot be used has no questions and nothing is submitted for it.
ChaptersOver(P, Q, R) ==
  {<<page, <<>>, NoResponse>> : page \in P \ {"ok"}}
    \cup {<<"ok", qs, reply>> : qs \in Q, reply \in R}

\* the chapters of the scheduler runs: one answered question each
SchedChapters == ChaptersOver({"ok", "http_error"}, {<<"answered">>}, {200, 500})

Commands ==
  \/ \E u \in Users, pre \in StartPre : StartBegin(u, pre)
  \/ \E u \in Users, sel \in Selections, resolved \in BOOLEAN : StartResume(u, sel, resolved)
  \/ \E u \in Users, tid \in 0..MaxTasks : _handle_cancel(u, tid)
  \/ \E private \in BOOLEAN, is_admin \in BOOLEAN, tid \in 0..MaxTasks :
       AdminCancel(private, is_admin, tid)

WorkerSteps ==
  \/ \E w \in Workers : WorkerDequeue(w)
  \/ \E w \in Workers, out \in SendOutcomes : NotifyStart(w, out)
  \/ \E w \in Workers : RunTaskFinish(w)
  \/ \E w \in Workers, out \in SendOutcomes : NotifyFinal(w, out)

\* the steps of _execute_task_sync with the chapters drawn from C
PipelineOver(C) ==
  \/ \E w \in Workers, out \in SessionOutcomes : PipeSession(w, out)
  \/ \E w \in Workers, found \in BOOLEAN, n \in 0..MaxChapters : PipeDiscover(w, found, n)
  \/ \E w \in Workers, completed \in SUBSET (1..MaxChapters) : PipeSelect(w, completed)
  \/ \E w \in Workers : PipeLoopHead(w)
  \/ \E w \in Workers, c \in C : PipeChapter(w, c[1], c[2], c[3])

PipelineSteps == PipelineOver(SchedChapters)

Next == Commands \/ WorkerSteps \/ PipelineSteps

Spec == Init /\ [][Next]_vars

\* scheduler runs of one user in which time passes
TimedNext ==
  \/ Tick
  \/ StartBegin(1, "ok")
  \/ StartResume(1, [mode |-> "all", spec |-> <<>>], TRUE)
  \/ \E tid \in 1..MaxTasks : _handle_cancel(1, tid)
  \/ WorkerSteps
  \/ PipelineSteps

TimedSpec == Init /\ [][TimedNext]_vars

\* ------------------------------------------------------------------ job runs
\* one job of one user under every configuration, its chapters drawn from all
\* pages, question lists and submission replies
Rates == {0, 50, 100}
Configs == [strict_mode : BOOLEAN, auto_submit : BOOLEAN, min_answer_rate : Rates]
\* The question lists of up to MaxQuestions questions.  The loop of lines
\* 775-813 only counts the questions of each kind, so the lists are drawn with
\* the kinds grouped: answered, then missing, then unnamed, then untitled.
KindRank(k) ==
  CASE k = "answered" -> 1 [] k = "missing" -> 2 [] k = "unnamed" -> 3 [] k = "untitled" -> 4
QuestionSeqs ==
  {qs \in UNION {[1..n -> Resolutions] : n \in 0..MaxQuestions} :
     \A i \in 1..(Len(qs) - 1) : KindRank(qs[i]) <= KindRank(qs[i + 1])}

JobChapters == ChaptersOver(Pages, QuestionSeqs, SubmitReplies)

JobInit ==
  /\ now = 0
  /\ config \in Configs
  /\ bindings = [u \in Users |-> BoundBefore(u)]
  /\ disk = bindings
  /\ firstBind = [u \in DOMAIN bindings |-> bindings[u].username]
  /\ lastBind = NoBind
  /\ tasks = <<>>
  /\ queue = <<>>
  /\ pending = [u \in Users |-> 0]
  /\ wk = [w \in Workers |-> IdleWorker]
  /\ hist = <<>>
  /\ bot = NewBot
  /\ asked = NoneAsked
  /\ auth = NoAuth
  /\ pool = NoPool

JobNext ==
  \/ tasks = <<>> /\ pending[1] = 0 /\ StartBegin(1, "ok")
  \/ StartResume(1, [mode |-> "all", spec |-> <<>>], TRUE)
  \/ _handle_cancel(1, 1)
  \/ WorkerSteps
  \/ PipelineOver(JobChapters)

JobSpec == JobInit /\ [][JobNext]_vars

\* ------------------------------------------------------------------ answer runs
\* one bot with a loaded question bank resolves questions one after another
Questions == {"q1", "q2"}
BankAnswers == {"", "A", "B"}
BankEntries == [question_text : Questions, selected_answer : BankAnswers]
\* a partition holds at most one question here
Partitions == {<<>>} \cup {<<e>> : e \in BankEntries}
Banks == UNION {[1..n -> Partitions] : n \in 0..MaxPartitions}

AnswerInit ==
  /\ now = 0
  /\ config = DefaultConfig
  /\ bindings = [u \in Users |-> BoundBefore(u)]
  /\ disk = bindings
  /\ firstBind = [u \in DOMAIN bindings |-> bindings[u].username]
  /\ lastBind = NoBind
  /\ tasks = <<>>
  /\ queue = <<>>
  /\ pending = [u \in Users |-> 0]
  /\ wk = [w \in Workers |-> IdleWorker]
  /\ hist = <<>>
  /\ \E bank \in Banks : bot = [NewBot EXCEPT !.question_bank = bank]
  /\ asked = NoneAsked
  /\ auth = NoAuth
  /\ pool = NoPool

AnswerNext ==
  \E question_text \in Questions, reply \in OracleReplies : FindAnswer(question_text, reply)

AnswerSpec == AnswerInit /\ [][AnswerNext]_vars

\* ------------------------------------------------------------------ binding runs
Usernames == {"a", "b"}
Passwords == {"p", "q"}

BindInit ==
  /\ now = 0
  /\ config = DefaultConfig
  /\ bindings = [u \in {} |-> BoundBefore(u)]
  /\ disk = bindings
  /\ firstBind = [u \in {} |-> ""]
  /\ lastBind = NoBind
  /\ tasks = <<>>
  /\ queue = <<>>
  /\ pending = [u \in Users |-> 0]
  /\ wk = [w \in Workers |-> IdleWorker]
  /\ hist = <<>>
  /\ bot = NewBot
  /\ asked = NoneAsked
  /\ auth = NoAuth
  /\ pool = NoPool

BindNext ==
  \/ Tick
  \/ \E qq_id \in Users, username \in Usernames, password \in Passwords :
       Bind(qq_id, username, password)

BindSpec == BindInit /\ [][BindNext]_vars

\* ------------------------------------------------------------------ login runs
\* one call of analyze_network_request
LoginPages == {"ok", "unavailable"}

LoginInit ==
  /\ now = 0
  /\ config = DefaultConfig
  /\ bindings = [u \in Users |-> BoundBefore(u)]
  /\ disk = bindings
  /\ firstBind = [u \in DOMAIN bindings |-> bindings[u].username]
  /\ lastBind = NoBind
  /\ tasks = <<>>
  /\ queue = <<>>
  /\ pending = [u \in Users |-> 0]
  /\ wk = [w \in Workers |-> IdleWorker]
  /\ hist = <<>>
  /\ bot = NewBot
  /\ asked = NoneAsked
  /\ auth = NoAuth
  /\ pool = NoPool

LoginNext ==
  \/ \E page \in LoginPages : NegotiateBegin(page)
  \/ \E r \in Responses : LoginAttempt(r)
  \/ HumanLikeDelay

LoginSpec == LoginInit /\ [][LoginNext]_vars

\* ------------------------------------------------------------------ selection runs
\* one job of user 1 under every selection: every index-list text of up to
\* MaxText characters, a range, the incomplete chapters, all chapters; the
\* session of the job is valid
IndexChars == {"0", "1", "2", ",", " ", "x", "^"}
PickTexts == UNION {[1..k -> IndexChars] : k \in 0..MaxText}
T_2_2 == <<"2", "-", "2">>
PickSelections ==
  { [mode |-> "all", spec |-> <<>>],
    [mode |-> "incomplete", spec |-> <<>>],
    [mode |-> "range", spec |-> T_2_2] }
    \cup {[mode |-> "explicit", spec |-> text] : text \in PickTexts}
PickChapters == ChaptersOver({"ok"}, {<<"answered">>}, {200})

SelectInit ==
  /\ now = 0
  /\ config = DefaultConfig
  /\ bindings = [u \in Users |-> BoundBefore(u)]
  /\ disk = bindings
  /\ firstBind = [u \in DOMAIN bindings |-> bindings[u].username]
  /\ lastBind = NoBind
  /\ tasks = <<>>
  /\ queue = <<>>
  /\ pending = [u \in Users |-> 0]
  /\ wk = [w \in Workers |-> IdleWorker]
  /\ hist = <<>>
  /\ bot = NewBot
  /\ asked = NoneAsked
  /\ auth = NoAuth
  /\ pool = NoPool

SelectNext ==
  \/ tasks = <<>> /\ pending[1] = 0 /\ StartBegin(1, "ok")
  \/ \E sel \in PickSelections : StartResume(1, sel, TRUE)
  \/ WorkerSteps
  \/ \E w \in Workers : PipeSession(w, "valid")
  \/ \E w \in Workers, found \in BOOLEAN, n \in 0..MaxChapters : PipeDiscover(w, found, n)
  \/ \E w \in Workers, completed \in SUBSET (1..MaxChapters) : PipeSelect(w, completed)
  \/ \E w \in Workers : PipeLoopHead(w)
  \/ \E w \in Workers, c \in PickChapters : PipeChapter(w, c[1], c[2], c[3])

SelectSpec == SelectInit /\ [][SelectNext]_vars

\* ------------------------------------------------------------------ command runs
\* runs of the scheduler under every command, the administrative ones
\* included; the jobs select all chapters, their sessions are valid and
\* their chapters go through
CmdNext ==
  \/ OnLoaded
  \/ \E u \in Users, pre \in StartPre : StartBegin(u, pre)
  \/ \E u \in Users, resolved \in BOOLEAN :
       StartResume(u, [mode |-> "all", spec |-> <<>>], resolved)
  \/ \E u \in Users, tid \in 0..MaxTasks : _handle_cancel(u, tid)
  \/ \E private \in BOOLEAN, is_admin \in BOOLEAN, tid \in 0..MaxTasks :
       AdminCancel(private, is_admin, tid)
  \/ \E private \in BOOLEAN, is_admin \in BOOLEAN, cmd \in AdminQueries,
         tid \in 0..MaxTasks : AdminQuery(private, is_admin, cmd, tid)
  \/ WorkerSteps
  \/ \E w \in Workers : PipeSession(w, "valid")
  \/ \E w \in Workers, found \in BOOLEAN, n \in 0..MaxChapters : PipeDiscover(w, found, n)
  \/ \E w \in Workers : PipeSelect(w, {})
  \/ \E w \in Workers : PipeLoopHead(w)
  \/ \E w \in Workers, c \in PickChapters : PipeChapter(w, c[1], c[2], c[3])

CmdSpec == Init /\ [][CmdNext]_vars

\* ------------------------------------------------------------------ retention runs
\* runs of the scheduler that last longer than the retention window: user 1
\* starts and cancels jobs with the short commands and through on_quiz_command,
\* an administrator lists and cancels, and time passes by a second or by a
\* whole window, at most MaxClock seconds after a whole number of windows.
\* time.time() is positive.  The login of every job fails, so
\* a job that runs ends failed.
CleanupHorizon == expire_seconds + MaxClock

CleanupInit ==
  /\ now = 1
  /\ config = DefaultConfig
  /\ bindings = [u \in Users |-> BoundBefore(u)]
  /\ disk = bindings
  /\ firstBind = [u \in DOMAIN bindings |-> bindings[u].username]
  /\ lastBind = NoBind
  /\ tasks = <<>>
  /\ queue = <<>>
  /\ pending = [u \in Users |-> 0]
  /\ wk = [w \in Workers |-> IdleWorker]
  /\ hist = <<>>
  /\ bot = NewBot
  /\ asked = NoneAsked
  /\ auth = NoAuth
  /\ pool = NoPool

CleanupNext ==
  \/ now % expire_seconds < MaxClock /\ Elapse(1, CleanupHorizon)
  \/ Elapse(expire_seconds, CleanupHorizon)
  \/ pending[1] = 0 /\ StartBegin(1, "ok")
  \/ StartResume(1, [mode |-> "all", spec |-> <<>>], TRUE)
  \/ \E tid \in 1..MaxTasks : _handle_cancel(1, tid)
  \/ \E cmd \in QuizCommands, tid \in 1..MaxTasks :
       pending[1] = 0 /\ on_quiz_command(1, cmd, "ok", tid)
  \/ \E tid \in 1..MaxTasks : AdminCancel(TRUE, TRUE, tid)
  \/ AdminQuery(TRUE, TRUE, "list", 0)
  \/ \E w \in Workers : WorkerDequeue(w)
  \/ \E w \in Workers : NotifyStart(w, "ok")
  \/ \E w \in Workers : PipeSession(w, "login_failed")
  \/ \E w \in Workers : RunTaskFinish(w)
  \/ \E w \in Workers : NotifyFinal(w, "ok")

CleanupSpec == CleanupInit /\ [][CleanupNext]_vars

\* ------------------------------------------------------------------ fair runs
\* Runs of the jobs of user 1 in which every worker goes on: the event loop
\* resumes a worker coroutine whose await has completed, the pipeline thread
\* runs, and every external call returns or raises.  WorkerRun(w) is any step
\* of worker w, whatever the outcome of the external call in it.
WorkerRun(w) ==
  \/ WorkerDequeue(w)
  \/ \E out \in SendOutcomes : NotifyStart(w, out)
  \/ PipeSession(w, "valid")
  \/ \E found \in BOOLEAN, n \in 0..MaxChapters : PipeDiscover(w, found, n)
  \/ PipeSelect(w, {})
  \/ PipeLoopHead(w)
  \/ \E c \in PickChapters : PipeChapter(w, c[1], c[2], c[3])
  \/ RunTaskFinish(w)
  \/ \E out \in SendOutcomes : NotifyFinal(w, out)

LiveNext ==
  \/ pending[1] = 0 /\ StartBegin(1, "ok")
  \/ StartResume(1, [mode |-> "all", spec |-> <<>>], TRUE)
  \/ \E tid \in 1..MaxTasks : _handle_cancel(1, tid)
  \/ \E w \in Workers : WorkerRun(w)

LiveSpec == Init /\ [][LiveNext]_vars /\ \A w \in Workers : WF_vars(WorkerRun(w))

\* ------------------------------------------------------------------ loop runs
\* one job of user 1 over up to MaxLoop chapters, all selected; a chapter
\* goes through, is answered with an error page, or its submission is refused;
\* the job may be cancelled at any time
LoopChapters == ChaptersOver({"ok", "http_error"}, {<<"answered">>}, {200, 500})

LoopNext ==
  \/ tasks = <<>> /\ pending[1] = 0 /\ StartBegin(1, "ok")
  \/ StartResume(1, [mode |-> "all", spec |-> <<>>], TRUE)
  \/ _handle_cancel(1, 1)
  \/ \E w \in Workers : WorkerDequeue(w)
  \/ \E w \in Workers : NotifyStart(w, "ok")
  \/ \E w \in Workers : PipeSession(w, "valid")
  \/ \E w \in Workers, n \in 1..MaxLoop : PipeDiscover(w, TRUE, n)
  \/ \E w \in Workers : PipeSelect(w, {})
  \/ \E w \in Workers : PipeLoopHead(w)
  \/ \E w \in Workers, c \in LoopChapters : PipeChapter(w, c[1], c[2], c[3])
  \/ \E w \in Workers : RunTaskFinish(w)
  \/ \E w \in Workers : NotifyFinal(w, "ok")

LoopSpec == JobInit /\ [][LoopNext]_vars

\* ------------------------------------------------------------------ claims
\* the jobs of user u that count as active
ActiveJobs(u) ==
  {t \in TaskIds : tasks[t].qq_id = u /\ tasks[t].status \in {"queued", "running"}}

\* t is no longer in the queue
Dequeued(t) == \A i \in 1..Len(queue) : queue[i] # t

\* C1: no user ever owns two jobs with status queued or running, and a start
\* command that resumes while its user owns such a job is never accepted: it
\* returns the "already has an active task" text once its arguments and its
\* course are valid (otherwise the earlier argument or course error).  The
\* check, the insertion and the enqueueing are one step, so this holds with
\* several start commands of one user suspended at once.
C1_SingleFlight ==
  \A u \in Users :
    /\ Cardinality(ActiveJobs(u)) <= 1
    /\ ActiveJobs(u) # {} =>
         \A sel \in Selections, resolved \in BOOLEAN :
           /\ StartReply(u, sel, resolved) # "queued_ok"
           /\ (resolved /\ ~(sel.mode \in {"explicit", "range"} /\ sel.spec = <<>>))
                => StartReply(u, sel, resolved) = "active"

\* C1 witness: a user owns a queued job while two more start commands of the
\* same user are suspended
C1_Witness ==
  \E u \in Users : ActiveJobs(u) # {} /\ pending[u] = 2

\* C2: a job cancelled while queued is canceled from then on, is never started
\* and its pipeline is never invoked, also after a worker has dequeued it.
C2_QueuedCancelNeverRuns ==
  \A t \in TaskIds :
    hist[t].cq =>
      /\ tasks[t].status = "canceled"
      /\ tasks[t].started_at = NoTime
      /\ hist[t].invoked = 0
      /\ \A w \in Workers : wk[w].task # t

\* C2 witness: a job cancelled while queued has been dequeued by a worker
C2_Witness ==
  \E t \in TaskIds : hist[t].cq /\ Dequeued(t) /\ hist[t].fin_writes = 2

\* C3: a job whose cancellation was accepted while it was running ends canceled.
C3_CancelRunningEndsCanceled ==
  \A t \in TaskIds :
    (tasks[t].cancel_event /\ ~hist[t].cq /\ tasks[t].status \in Terminal)
      => tasks[t].status = "canceled"

\* the number of chapters whose question page has been fetched
Processed(st) == st.success_count + st.fail_count

\* C4: in a step taken while a job's cancellation flag is set, its pipeline
\* starts no chapter: the number of chapters started (the one in flight
\* included) stays what it was, and only a chapter that was in flight gets its
\* question fetch and submission.
C4_NoChapterAfterCancel ==
  [][\A w \in Workers :
       (wk[w].pc = "pipeline" /\ tasks[wk[w].task].cancel_event /\ wk'[w].pc = "pipeline")
         => /\ Started(wk'[w].st) = Started(wk[w].st)
            /\ (Processed(wk'[w].st) # Processed(wk[w].st) => wk[w].st.inflight)]_vars

\* C4 witness: the pipeline has stopped at the checkpoint after the first of
\* several selected chapters
C4_Witness ==
  \E w \in Workers :
    /\ wk[w].pc = "pipeline" /\ wk[w].st.stage = "done" /\ wk[w].st.canceled
    /\ Started(wk[w].st) = 1 /\ Len(wk[w].st.sel) > 1

\* C5: no worker loop ever terminates because of one job.
C5_WorkerNeverDies ==
  \A w \in Workers : wk[w].pc # "dead"

\* C6: a range job with invalid bounds has issued no request when it is rejected.
C6_RangeRejectedBeforeNetwork ==
  \A w \in Workers :
    (wk[w].pc = "pipeline" /\ tasks[wk[w].task].mode = "range"
       /\ ~_parse_range(tasks[wk[w].task].spec).ok)
      => wk[w].st.net = {}

C8_TimestampsWrittenOnce ==
  \A t \in TaskIds : hist[t].start_writes <= 1 /\ hist[t].fin_writes <= 1

\* the edges of the job lifecycle
StatusEdges ==
  {<<"queued", "running">>, <<"queued", "canceled">>, <<"running", "canceling">>}
    \cup {<<a, b>> : a \in {"running", "canceling"}, b \in Terminal}

\* C9: a job's status changes only along the lifecycle edges, a terminal status
\* never changes, and status canceling implies that the cancellation flag is set.
C9_Lifecycle ==
  /\ [][\A t \in TaskIds :
          /\ t \in 1..Len(tasks')
          /\ tasks'[t].status # tasks[t].status
               => <<tasks[t].status, tasks'[t].status>> \in StatusEdges]_vars
  /\ [](\A t \in TaskIds : tasks[t].status = "canceling" => tasks[t].cancel_event)

\* C9 witness: a cancel command has addressed a job that had ended after a
\* cancel request while running
C9_Witness ==
  \E t \in TaskIds :
    tasks[t].status \in Terminal /\ tasks[t].cancel_event /\ ~hist[t].cq

\* C10: the stored username of an identity is always the one of its first
\* successful bind; a bind that returns False leaves the store and the file as
\* they were, and a bind that returns True leaves its own username stored.
C10_UsernameImmutable ==
  /\ [](\A u \in DOMAIN bindings :
          u \in DOMAIN firstBind /\ bindings[u].username = firstBind[u])
  /\ [](lastBind.qq_id # 0 =>
          /\ lastBind.qq_id \in DOMAIN bindings
          /\ lastBind.ok <=> bindings[lastBind.qq_id].username = lastBind.username)
  /\ [][~lastBind'.ok => (bindings' = bindings /\ disk' = disk)]_vars

\* C10 witness: a bind with another username has been rejected for a bound identity
C10_Witness ==
  /\ ~lastBind.ok
  /\ lastBind.qq_id \in DOMAIN bindings
  /\ bindings[lastBind.qq_id].username # lastBind.username

\* C11: a bind call for a bound identity with the username it is bound to
\* returns True and rewrites only that identity's secret and updated_at: its
\* username and bound_at, the set of bound identities and every other
\* identity's record stay what they were, and the file holds the new store.
C11_RebindFrame ==
  [][\A u \in DOMAIN bindings :
       (now' = now /\ lastBind'.qq_id = u /\ lastBind'.username = bindings[u].username)
         => /\ lastBind'.ok
            /\ DOMAIN bindings' = DOMAIN bindings
            /\ bindings'[u].username = bindings[u].username
            /\ bindings'[u].bound_at = bindings[u].bound_at
            /\ bindings'[u].updated_at = now
            /\ bindings'[u].password.ts = now
            /\ \A v \in DOMAIN bindings \ {u} : bindings'[v] = bindings[v]
            /\ disk' = bindings']_vars

\* C11 witness: an identity bound earlier has been bound again with its username
\* and another secret, next to another bound identity
C11_Witness ==
  \E u, v \in DOMAIN bindings :
    /\ u # v
    /\ lastBind.qq_id = u /\ lastBind.ok
    /\ bindings[u].bound_at < bindings[u].updated_at
    /\ _decrypt(bindings[u].password) = "q"
    /\ bindings[v].updated_at < bindings[u].updated_at

\* the latest call of auto_answer_with_report in worker w's pipeline
LastCall(w) == wk[w].st.last
LastReport(w) == wk[w].st.last.report
Called(w) == LastReport(w).status # "unset"

\* C12: in strict mode a chapter with a question for which no answer was found
\* is reported insufficient_answers and no submission request is sent for it;
\* without strict mode, with min_answer_rate 0 and submission enabled, a chapter
\* with some but not all of its questions answered is sent to submission.
C12_StrictWithholdsSubmission ==
  \A w \in Workers :
    Called(w) =>
      /\ (config.strict_mode /\ LastReport(w).stats.missing > 0)
            => /\ LastReport(w).status = "insufficient_answers"
               /\ ~LastReport(w).success
               /\ "submit" \notin LastCall(w).requests
      /\ (~config.strict_mode /\ config.min_answer_rate = 0 /\ config.auto_submit
             /\ 0 < LastReport(w).stats.answered
             /\ LastReport(w).stats.answered < LastReport(w).stats.total)
            => "submit" \in LastCall(w).requests

\* C12 witness: strict mode, a chapter of two questions, one answered and one
\* without an answer, was reported insufficient_answers
C12_Witness ==
  \E w \in Workers :
    /\ config.strict_mode
    /\ LastReport(w).stats = [total |-> 2, answered |-> 1, missing |-> 1]
    /\ LastReport(w).status = "insufficient_answers"
    /\ LastCall(w).requests = {"questions"}

\* C13: in strict mode nothing more is processed once a chapter was reported
\* insufficient_answers: the pipeline has ended with that chapter as its last.
\* Without strict mode such a chapter is counted as a failure, the loop goes on,
\* and a pipeline that ends uncancelled has processed every selected chapter.
C13_StrictStopsAtInsufficient ==
  /\ [](\A w \in Workers :
          (config.strict_mode /\ LastReport(w).status = "insufficient_answers")
            => /\ wk[w].st.stage = "done" /\ ~wk[w].st.inflight
               /\ wk[w].st.result = "failure"
               /\ wk[w].st.stopped_reason = LastReport(w).message)
  /\ [](\A w \in Workers :
          (~config.strict_mode /\ wk[w].st.stage = "done" /\ wk[w].st.sel # <<>>
             /\ ~wk[w].st.canceled)
            => Processed(wk[w].st) = Len(wk[w].st.sel))
  /\ [][\A w \in Workers :
          /\ (wk[w].st.stage = "done" /\ wk'[w].pc = "pipeline")
                => wk'[w].st = wk[w].st
          /\ (~config.strict_mode /\ wk[w].st.stage = "chapter"
                 /\ wk'[w].st.stage # "chapter"
                 /\ wk'[w].st.last.report.status = "insufficient_answers")
                => /\ wk'[w].st.fail_count = wk[w].st.fail_count + 1
                   /\ wk'[w].st.success_count = wk[w].st.success_count
                   /\ wk'[w].st.stage = "loop"]_vars

\* C13 witness: strict mode, two chapters selected, the first reported
\* insufficient_answers and the pipeline ended there
C13_Witness ==
  \E w \in Workers :
    /\ config.strict_mode
    /\ LastReport(w).status = "insufficient_answers"
    /\ Len(wk[w].st.sel) = 2 /\ Processed(wk[w].st) = 1
    /\ wk[w].st.stage = "done" /\ ~wk[w].st.canceled

\* C14: with or without strict mode, a chapter whose coverage answered/total is
\* below min_answer_rate is reported insufficient_answers and not submitted;
\* with min_answer_rate 0 the coverage check withholds nothing.
C14_RateWithholdsSubmission ==
  \A w \in Workers :
    (Called(w) /\ LastReport(w).stats.total > 0) =>
      /\ RateBelow(LastReport(w).stats.answered, LastReport(w).stats.total,
                   config.min_answer_rate)
            => /\ LastReport(w).status = "insufficient_answers"
               /\ ~LastReport(w).success
               /\ "submit" \notin LastCall(w).requests
      /\ config.min_answer_rate = 0 => LastReport(w).message # "rate_low"

\* C14 witness: without strict mode, a chapter with one of two questions
\* answered and none reported missing was withheld under min_answer_rate 100
C14_Witness ==
  \E w \in Workers :
    /\ ~config.strict_mode /\ config.min_answer_rate = 100
    /\ LastReport(w).stats = [total |-> 2, answered |-> 1, missing |-> 0]
    /\ LastReport(w).message = "rate_low"
    /\ LastCall(w).requests = {"questions"}

\* C15: a chapter whose submission is answered with a status other than 200 is
\* counted as a failed chapter and the loop goes on; a pipeline that ends
\* without a cancellation and without a strict-mode insufficient_answers stop
\* has processed every selected chapter.
C15_SubmitFailureContinues ==
  /\ [][\A w \in Workers :
          (wk[w].st.stage = "chapter" /\ wk'[w].st.stage # "chapter"
             /\ wk'[w].st.last.submit_status # <<>>
             /\ wk'[w].st.last.submit_status[1] # 200)
            => /\ wk'[w].st.fail_count = wk[w].st.fail_count + 1
               /\ wk'[w].st.success_count = wk[w].st.success_count
               /\ wk'[w].st.stage = "loop"
               /\ wk'[w].st.stopped_reason = wk[w].st.stopped_reason]_vars
  /\ [](\A w \in Workers :
          (wk[w].st.stage = "done" /\ wk[w].st.sel # <<>> /\ ~wk[w].st.canceled
             /\ ~(config.strict_mode /\ LastReport(w).status = "insufficient_answers"))
            => Processed(wk[w].st) = Len(wk[w].st.sel))

\* C15 witness: the submission of the first chapter was answered 500 and the
\* second chapter was submitted after it
C15_Witness ==
  \E w \in Workers :
    /\ wk[w].st.stage = "done" /\ wk[w].st.post_failed = 1
    /\ wk[w].st.fail_count = 1 /\ wk[w].st.success_count = 1
    /\ LastReport(w).status = "submitted"

\* C16: when the pipeline ends, submit_failed is the number of processed
\* chapters whose submission was answered with a status other than 200.
C16_SubmitFailedCounts ==
  \A w \in Workers :
    wk[w].st.stage = "done" => wk[w].st.submit_failed = wk[w].st.post_failed

\* C17: a job that ends without being canceled is completed exactly if its
\* pipeline reached the chapter loop, no chapter failed and no stop reason was
\* recorded; otherwise it is failed and its error is a stop reason: the reason
\* recorded by an insufficient_answers chapter, else the one made from the
\* failure examples or the failure count, else the reason of the early return
\* or the text of the exception.
C17_CompletedIffNoFailure ==
  \A w \in Workers :
    LET t == wk[w].task
        st == wk[w].st
    IN  (wk[w].pc = "notify_final" /\ tasks[t].status # "canceled") =>
          /\ tasks[t].status \in {"completed", "failed"}
          /\ tasks[t].status = "completed"
                <=> (st.sel # <<>> /\ st.fail_count = 0 /\ st.result # "raise"
                       /\ st.stopped_reason = "None")
          /\ tasks[t].status = "completed" => tasks[t].error = "None"
          /\ tasks[t].status = "failed" =>
                /\ tasks[t].error \notin {"None", ""}
                /\ st.sel # <<>> =>
                      tasks[t].error =
                        IF st.stopped_reason \in {"strict_missing", "rate_low"}
                          THEN st.stopped_reason
                        ELSE IF st.failure_examples > 0 THEN "chapters_failed"
                        ELSE "failed_count"

\* C17 witness: a job ended failed because one of its two chapters failed, with
\* the reason made from the failure examples
C17_Witness ==
  \E w \in Workers :
    /\ wk[w].pc = "notify_final" /\ tasks[wk[w].task].status = "failed"
    /\ wk[w].st.fail_count = 1 /\ wk[w].st.success_count = 1
    /\ tasks[wk[w].task].error = "chapters_failed"

\* C18: a find_answer call for a question whose text is recorded in the bank,
\* in whichever partition, with a non-empty answer returns a non-empty answer
\* recorded for that text (the first the search meets) and sends no request to
\* the Oracle, whatever the Oracle would reply; the bot's Oracle state stays.
C18_BankBeforeOracle ==
  [][(asked'.calls = asked.calls + 1
        /\ \E i \in 1..Len(bot.question_bank) :
             \E j \in 1..Len(bot.question_bank[i]) :
               /\ bot.question_bank[i][j].question_text = asked'.last.question
               /\ bot.question_bank[i][j].selected_answer # "")
       => /\ asked'.last.answer # "None"
          /\ \E i \in 1..Len(bot.question_bank) :
               \E j \in 1..Len(bot.question_bank[i]) :
                 /\ bot.question_bank[i][j].question_text = asked'.last.question
                 /\ bot.question_bank[i][j].selected_answer = asked'.last.answer
                 /\ \A k \in 1..(i - 1) : \A l \in 1..Len(bot.question_bank[k]) :
                      bot.question_bank[k][l].question_text = asked'.last.question
                        => bot.question_bank[k][l].selected_answer = ""
          /\ asked'.last.sent = 0 /\ asked'.requests = asked.requests
          /\ bot' = bot]_vars

\* C18 witness: the bank records B in its second partition for a question the
\* Oracle would answer with A, and the call returned B
C18_Witness ==
  /\ asked.calls > 0 /\ asked.last.oracle = "answer" /\ OracleAnswer = "A"
  /\ asked.last.answer = "B" /\ asked.last.sent = 0
  /\ Len(bot.question_bank) = 2
  /\ bot.question_bank[1] # <<>>
  /\ bot.question_bank[1][1].selected_answer # "B"

retry_count == 3
TransientFailures == {"timeout", "conn_error", "malformed"}

\* C20: a find_answer call that asks the Oracle sends at most retry_count
\* requests, and sends another one after a request that ended in a timeout, a
\* connection failure or a malformed response while fewer than retry_count
\* were sent.
C20_OracleRetried ==
  asked.calls > 0 =>
    /\ asked.last.sent <= retry_count
    /\ (asked.last.sent >= 1 /\ asked.last.oracle \in TransientFailures)
          => asked.last.sent >= Min(2, retry_count)

\* session establishment, lines 620-622: which requests a job whose session
\* could not be established has made, and how it ends
SessionFailed(w) == wk[w].st.session = "login_failed"

\* C21: a job whose session check is false and whose login negotiation fails
\* ends failed, and it issues no course-list, chapter-list, completion,
\* question-fetch or submission request
C21_LoginFailureIsFatal ==
  \A w \in Workers :
    SessionFailed(w) =>
      /\ wk[w].st.stage = "done"
      /\ wk[w].st.result = "failure"
      /\ wk[w].st.error = "login_failed"
      /\ wk[w].st.net \subseteq {"session_check", "login"}
      /\ wk[w].st.success_count + wk[w].st.fail_count = 0
      /\ wk[w].pc = "notify_final" => tasks[wk[w].task].status = "failed"

\* C21 witness: a job whose login failed has been finalized
C21_Witness ==
  \E w \in Workers :
    /\ SessionFailed(w)
    /\ wk[w].pc = "notify_final"
    /\ tasks[wk[w].task].status = "failed"
    /\ "login" \in wk[w].st.net

\* C22: one call of analyze_network_request makes at most 3 login attempts
C22_AtMostThreeAttempts == Len(auth.log) <= 3

\* the encodings tried so far, in the order tried
Tried == [k \in 1..Len(auth.log) |-> auth.log[k].encoding]

\* C23: the encodings are tried in list order (4 without a key, 8 with one);
\* the negotiation returns success at the first attempt classified successful
\* and tries nothing after it, returns failure only when every encoding was
\* tried once, and sleeps only between two attempts, never after the last
C23_NegotiationOrder ==
  auth.stage # "idle" =>
    /\ Len(auth.candidates) = IF auth.key = NoKey THEN 4 ELSE 8
    /\ Len(auth.log) <= Len(auth.candidates)
    /\ Tried = SubSeq(auth.candidates, 1, Len(auth.log))
    /\ \A k \in 1..Len(auth.log) :
         /\ auth.log[k].ok => (k = Len(auth.log) /\ auth.result = "True")
         /\ k < Len(auth.log) => (~auth.log[k].ok /\ auth.log[k].delayed)
         /\ auth.log[k].delayed => (~auth.log[k].ok /\ k < Len(auth.candidates))
    /\ auth.stage = "delay" => Len(auth.log) < Len(auth.candidates)
    /\ auth.result = "True" =>
         (auth.stage = "done" /\ Len(auth.log) > 0 /\ auth.log[Len(auth.log)].ok)
    /\ auth.result = "False" =>
         /\ auth.stage = "done"
         /\ Len(auth.log) = Len(auth.candidates)
         /\ \A k \in 1..Len(auth.log) : ~auth.log[k].ok
         /\ ~auth.log[Len(auth.log)].delayed
    /\ auth.stage = "done" <=> auth.result # "none"

\* C23 witnesses: a negotiation with a key that succeeded at its third
\* encoding after two delays; one that failed after all eight
C23_Witness ==
  /\ auth.key # NoKey /\ auth.result = "True" /\ Len(auth.log) = 3
  /\ auth.log[1].delayed /\ auth.log[2].delayed /\ ~auth.log[3].delayed

C23_WitnessExhausted ==
  /\ auth.key # NoKey /\ auth.result = "False" /\ Len(auth.log) = 8

\* the classification by the first applicable rule in the order (a) structured
\* indicator, (b) redirect away from the login path, (c) success keyword,
\* (d) failure keyword
FirstApplicableRule(r) ==
  IF r.json = "object" /\ r.code = 1 /\ r.msg_ok THEN TRUE
  ELSE IF r.json = "object" /\ r.code = 0 THEN FALSE
  ELSE IF r.status = 302 /\ ~r.to_login THEN TRUE
  ELSE IF r.success_kw THEN TRUE
  ELSE FALSE

\* C24: every login response received is classified by the first applicable
\* rule; in particular a body with a success keyword and a failure keyword,
\* no structured indicator and no redirect, is classified successful
C24_ClassifiedByRuleOrder ==
  (Len(auth.log) > 0 /\ ~auth.last.raised) =>
     auth.log[Len(auth.log)].ok = FirstApplicableRule(auth.last)

\* the ways lines 626-651 find nothing to work on: the course id is not in
\* the fetched course list, the fetched chapter list is empty, the selection
\* computed from the mode is empty
NothingToDo(st) ==
  \/ st.course = "missing"
  \/ "chapters" \in st.net /\ st.n = 0
  \/ st.selected /\ st.sel = <<>>

\* C25: a job whose course is absent from the course list, whose chapter list
\* is empty or whose selection is empty fails, and no question is fetched and
\* nothing is submitted for any chapter
C25_NothingToDoFails ==
  \A w \in Workers :
    NothingToDo(wk[w].st) =>
      /\ wk[w].st.stage = "done"
      /\ wk[w].st.result = "failure"
      /\ wk[w].st.error \in {"course_missing", "no_chapters", "no_selection"}
      /\ wk[w].st.net \cap {"questions", "submit"} = {}
      /\ wk[w].st.success_count + wk[w].st.fail_count = 0
      /\ wk[w].pc = "notify_final" => tasks[wk[w].task].status = "failed"

\* C25 witness: a finalized job in explicit mode whose listed positions all
\* lie outside its chapter list
C25_Witness ==
  \E w \in Workers :
    /\ wk[w].pc = "notify_final"
    /\ tasks[wk[w].task].mode = "explicit"
    /\ wk[w].st.selected /\ wk[w].st.sel = <<>> /\ wk[w].st.n > 0
    /\ tasks[wk[w].task].status = "failed"

\* the positions an index-list text lists: the values of its comma-separated
\* items that are decimal numerals, blanks around an item ignored
Listed(text) ==
  {IntOf(SubSeq(text, i, j)) :
     <<i, j>> \in {p \in (1..Len(text)) \X (1..Len(text)) :
                    /\ p[1] <= p[2]
                    /\ p[1] = 1 \/ text[p[1] - 1] = ","
                    /\ p[2] = Len(text) \/ text[p[2] + 1] = ","
                    /\ \A k \in p[1]..p[2] : text[k] # ","
                    /\ IntOk(SubSeq(text, p[1], p[2]))}}

\* C26: in explicit mode the selection is, for every index-list text and every
\* chapter list of length n, the ascending sequence of the distinct listed
\* positions within 1..n; positions outside 1..n do not fail the job
C26_ExplicitSelection ==
  \A w \in Workers :
    LET st == wk[w].st
        task == tasks[wk[w].task]
    IN  (wk[w].task # 0 /\ task.mode = "explicit" /\ st.course = "found" /\ st.n > 0
           /\ st.stage \in {"loop", "chapter", "done"}) =>
          /\ st.selected
          /\ st.sel = SortedSeq(Listed(task.spec) \cap (1..st.n))
          /\ st.sel # <<>> => st.error # "no_selection"

\* C27: jobs leave the queue in the order in which they were accepted: the
\* queue holds the waiting jobs in acceptance order, and of two accepted jobs
\* the later one is never dequeued (nor set running) while the earlier one is
\* still in the queue
C27_FifoDequeue ==
  /\ \A i \in 1..(Len(queue) - 1) : queue[i] < queue[i + 1]
  /\ \A a \in TaskIds, b \in TaskIds :
       (a < b /\ ~Dequeued(a)) =>
          /\ ~Dequeued(b)
          /\ tasks[b].status \in {"queued", "canceled"}
          /\ tasks[b].started_at = NoTime

\* C27 witness: of two accepted jobs the earlier one is running and the
\* later one waits
C27_Witness ==
  /\ Len(tasks) = 2
  /\ queue = <<2>>
  /\ tasks[1].status = "running"
  /\ tasks[2].status = "queued"

\* values the configuration may give max_concurrency
ConcurrencyValues == -1..5

\* the jobs whose pipeline is executing
Executing == {t \in TaskIds : tasks[t].status \in {"running", "canceling"}}

CancelFields(task) == <<task.status, task.cancel_event, task.finished_at>>

\* C29: a user cancel is rejected exactly when it names another user's job,
\* an unknown job or a job that is completed, failed or canceled; a user
\* cancel that changes anything about the jobs comes from the owner of the
\* job it names, which had not ended, and changes that job only (so a
\* rejected cancel changes no status, flag or finished_at).  A cancellation
\* flag is set only by the cancel of the job's owner or by the cancel of an
\* administrator in private.
C29_CancelAuthority ==
  /\ [](\A u \in Users, tid \in 0..MaxTasks :
          (tid \notin TaskIds \/ tasks[tid].qq_id # u \/ tasks[tid].status \in Terminal)
             <=> CancelReply(u, tid) \in {"usage", "not_found", "finished"})
  /\ [][tasks' # tasks =>
          \A u \in Users, tid \in 0..MaxTasks :
            _handle_cancel(u, tid) =>
              /\ tid \in TaskIds /\ tasks[tid].qq_id = u /\ tasks[tid].status \notin Terminal
              /\ \A t \in TaskIds \ {tid} : tasks'[t] = tasks[t]]_vars
  /\ [][\A t \in TaskIds :
          tasks'[t].cancel_event # tasks[t].cancel_event
             => (_handle_cancel(tasks[t].qq_id, t) \/ AdminCancel(TRUE, TRUE, t))]_vars

\* C29 witness: two users own a job each, one job has ended and the other is
\* running with a cancel request
C29_Witness ==
  /\ Len(tasks) = 2
  /\ tasks[1].qq_id # tasks[2].qq_id
  /\ tasks[1].status \in Terminal /\ ~tasks[1].cancel_event
  /\ tasks[2].status = "canceling"

\* the replies that refuse an administrative command
Refusals == {"private_only", "admin_only"}

\* C30: an administrative command (list, detail, cancel, bindings) is
\* answered with a refusal exactly when the message is not private or the
\* sender is not an administrator; a step that changes anything about the jobs
\* is neither a refused administrative command nor a list, detail or bindings
\* command; the cancel of an administrator in private sets the flag of a job
\* that has not ended
C30_AdminOnly ==
  /\ [](\A private \in BOOLEAN, is_admin \in BOOLEAN, tid \in 0..MaxTasks :
          /\ AdminCancelReply(private, is_admin, tid) \in Refusals <=> ~(private /\ is_admin)
          /\ \A cmd \in AdminQueries :
               AdminQueryReply(private, is_admin, cmd, tid) \in Refusals
                  <=> ~(private /\ is_admin))
  /\ [][tasks' # tasks =>
          \A private \in BOOLEAN, is_admin \in BOOLEAN, tid \in 0..MaxTasks :
            /\ AdminCancel(private, is_admin, tid) => (private /\ is_admin)
            /\ \A cmd \in AdminQueries : ~AdminQuery(private, is_admin, cmd, tid)]_vars
  /\ [][\A tid \in TaskIds :
          (tasks[tid].status \notin Terminal /\ AdminCancel(TRUE, TRUE, tid))
             => tasks'[tid].cancel_event]_vars

\* C30 witness: a queued job of user 1 was canceled while user 1 has no
\* command in flight and another job runs
C30_Witness ==
  /\ Len(tasks) = 2
  /\ tasks[1].status = "running" /\ ~tasks[1].cancel_event
  /\ tasks[2].status = "canceled" /\ tasks[2].cancel_event /\ tasks[2].started_at = NoTime

\* job t leaves the task index in this step
Removed(t) == tasks[t].indexed /\ ~tasks'[t].indexed

\* job t finished more than 24 hours ago
Expired(t) ==
  tasks[t].finished_at # NoTime /\ now - tasks[t].finished_at[1] > 24 * 3600

\* C31: a job leaves the task index only if its finished_at is set and more
\* than 24 hours in the past, it then has none of the statuses queued,
\* running, canceling, and nothing else about it changes; a step that removes
\* a job removes every indexed job that finished more than 24 hours ago; a
\* sweeping command (on_quiz_command, on_admin_command) removes exactly those
\* jobs and changes no field of a job it keeps, unless it is the cancel of
\* that job; a removed job never returns to the index.
C31_CleanupExact ==
  /\ [][\A t \in TaskIds :
          /\ Removed(t) =>
               /\ Expired(t)
               /\ tasks[t].status \notin {"queued", "running", "canceling"}
               /\ tasks'[t] = [tasks[t] EXCEPT !.indexed = FALSE]
          /\ ~tasks[t].indexed => ~tasks'[t].indexed]_vars
  /\ [][(\E t \in TaskIds : Removed(t)) =>
          \A t \in TaskIds : (tasks[t].indexed /\ Expired(t)) => Removed(t)]_vars
  /\ [][(\/ AdminQuery(TRUE, TRUE, "list", 0)
         \/ \E cmd \in QuizCommands, tid \in 1..MaxTasks : on_quiz_command(1, cmd, "ok", tid)
         \/ \E tid \in 1..MaxTasks : AdminCancel(TRUE, TRUE, tid))
          => \A t \in TaskIds :
               /\ (tasks[t].indexed /\ Expired(t)) <=> Removed(t)
               /\ (tasks'[t].indexed /\ tasks'[t] # tasks[t])
                     => (tasks'[t].cancel_event /\ ~tasks[t].cancel_event)]_vars

\* C31 witness: a sweep has removed a job that finished more than 24 hours
\* ago and kept one that finished exactly 24 hours ago
C31_Witness ==
  \E a \in TaskIds, b \in TaskIds :
    /\ ~tasks[a].indexed
    /\ tasks[b].indexed /\ tasks[b].finished_at # NoTime
    /\ now - tasks[b].finished_at[1] = 24 * 3600
    /\ now - tasks[a].finished_at[1] > 24 * 3600

\* a worker is at work on job t: between dequeuing it and the return of
\* _run_task
AtWork(t) ==
  \E w \in Workers : wk[w].task = t /\ wk[w].pc \in {"notify_start", "pipeline", "notify_final"}

\* the order of the notifications of a job: the start acknowledgment comes
\* after the status became running and before the pipeline is invoked, the
\* final summary after a terminal status; a job cancelled while queued gets none
NotificationOrder(t) ==
  /\ hist[t].notes \in {<<>>, <<"start">>, <<"start", "final">>}
  /\ hist[t].cq => hist[t].notes = <<>>
  /\ hist[t].notes # <<>> => tasks[t].started_at # NoTime
  /\ hist[t].invoked > 0 => hist[t].notes # <<>>
  /\ Len(hist[t].notes) = 2 => tasks[t].status \in Terminal

\* C32: every job a worker started running gets exactly two notifications,
\* the start acknowledgment and then the final summary, in the order above:
\* once no worker is at work on it any more, both have been delivered; a job
\* cancelled while queued gets neither.
C32_TwoNotifications ==
  \A t \in TaskIds :
    /\ NotificationOrder(t)
    /\ (tasks[t].started_at # NoTime /\ ~AtWork(t))
          => hist[t].notes = <<"start", "final">>

\* C33: the Oracle is disabled only after three requests in a row ended in
\* an error: a reply without an answer (HTTP 200 carrying none) between two
\* errors starts the count afresh, as an answer does.
C33_DisabledOnlyAfterThreeInARow ==
  (~bot.api_available \/ bot.api_error_count >= 3) => asked.tripped

Unfinished(u) ==
  {t \in TaskIds : tasks[t].qq_id = u /\ tasks[t].status \in {"queued", "running", "canceling"}}

\* C35: no user ever owns two jobs with status queued, running or canceling,
\* and a start command that resumes while its user owns such a job is not
\* accepted.
C35_OneUnfinishedPerUser ==
  \A u \in Users :
    /\ Cardinality(Unfinished(u)) <= 1
    /\ Unfinished(u) # {} =>
         StartReply(u, [mode |-> "all", spec |-> <<>>], TRUE) # "queued_ok"

\* C36: with workers that go on and external calls that return or raise,
\* every accepted job eventually has status completed, failed or canceled.
C36_EveryJobEnds ==
  \A t \in 1..MaxTasks :
    [](t \in TaskIds => <>(t \in TaskIds /\ tasks[t].status \in Terminal))

\* the number of places job t has in the queue
Places(t) == Cardinality({i \in 1..Len(queue) : queue[i] = t})

\* C37: a job enters the index and the queue in one step, as a queued job at
\* the end of the queue, and the queue grows in no other way; a queued job is
\* in the queue exactly once and no job is in it twice; a job in the queue has
\* not been started, a job is taken from the head of the queue, a job that
\* has left the queue never returns to it, and the pipeline is invoked at
\* most once per job, by a worker that holds the job.
C37_IndexAndQueue ==
  /\ [](\A t \in TaskIds :
          /\ Places(t) <= 1
          /\ tasks[t].status = "queued" => (Places(t) = 1 /\ tasks[t].indexed)
          /\ Places(t) = 1 =>
               /\ tasks[t].status \in {"queued", "canceled"}
               /\ tasks[t].started_at = NoTime /\ hist[t].invoked = 0
          /\ hist[t].invoked <= 1
          /\ hist[t].invoked = 1 => tasks[t].started_at # NoTime)
  /\ [](\A i \in 1..Len(queue) : queue[i] \in TaskIds)
  /\ [][Len(tasks') # Len(tasks) =>
          /\ Len(tasks') = Len(tasks) + 1
          /\ queue' = Append(queue, Len(tasks'))
          /\ tasks'[Len(tasks')].indexed /\ tasks'[Len(tasks')].status = "queued"]_vars
  /\ [][queue' # queue =>
          \/ Len(tasks') = Len(tasks) + 1
          \/ queue # <<>> /\ queue' = Tail(queue)]_vars
  /\ [][\A t \in TaskIds :
          Dequeued(t) => (\A i \in 1..Len(queue') : queue'[i] # t)]_vars

\* C37 witness: of two accepted jobs the first was dequeued, ran its pipeline
\* once and ended, and the second, cancelled while queued, is still in the queue
C37_Witness ==
  /\ Len(tasks) = 2
  /\ hist[1].invoked = 1 /\ tasks[1].status \in Terminal /\ Dequeued(1)
  /\ queue = <<2>> /\ tasks[2].status = "canceled"

\* the pipeline of worker w has reached the chapter loop
InLoop(w) ==
  wk[w].pc = "pipeline" /\ wk[w].st.sel # <<>> /\ wk[w].st.stage \in {"loop", "chapter", "done"}

\* C38: for a job that reached the chapter loop the summary has total =
\* success + failed = the number of chapters whose processing was started,
\* total <= the number of selected chapters and at most 3 failure examples;
\* during the loop the counters cover the chapters started, less the one in
\* progress; a job that stopped at the cancellation checkpoint ends canceled
\* with the counters of the chapters processed before it, which are fewer
\* than the selected ones; and no counter ever decreases.
C38_SummaryCounts ==
  /\ [](\A w \in Workers :
          InLoop(w) =>
            LET st == wk[w].st IN
            /\ st.success_count + st.fail_count + (IF st.inflight THEN 1 ELSE 0) = st.calls
            /\ st.calls <= Len(st.sel)
            /\ st.failure_examples <= 3
            /\ st.failure_examples <= st.fail_count
            /\ st.stage = "done" =>
                 /\ st.result # "raise"
                 /\ Summary(st).total = Summary(st).success + Summary(st).failed
                 /\ Summary(st).total = st.calls
                 /\ Summary(st).total <= Len(st.sel)
                 /\ st.canceled =>
                      (Summary(st).total < Len(st.sel) /\ Summary(st).stopped = "task_canceled"))
  /\ [][\A w \in Workers :
          (InLoop(w) /\ wk'[w].pc = "pipeline") =>
             /\ wk'[w].st.success_count >= wk[w].st.success_count
             /\ wk'[w].st.fail_count >= wk[w].st.fail_count
             /\ wk'[w].st.calls >= wk[w].st.calls]_vars

\* C38 witness: a job of more than three selected chapters was cancelled
\* after four chapters had failed
C38_Witness ==
  \E w \in Workers :
    /\ InLoop(w) /\ wk[w].st.stage = "done" /\ wk[w].st.canceled
    /\ wk[w].st.fail_count = 4 /\ wk[w].st.failure_examples = 3
    /\ Len(wk[w].st.sel) > 4

\* C39: in every chapter report answered + missing = total, and a
\* submission made in strict mode carries an answer for every question counted.
C39_EveryQuestionCounted ==
  \A w \in Workers :
    Called(w) =>
      /\ LastReport(w).stats.answered + LastReport(w).stats.missing
            = LastReport(w).stats.total
      /\ (config.strict_mode /\ "submit" \in LastCall(w).requests)
            => LastReport(w).stats.answered = LastReport(w).stats.total

\* the configuration without strict mode, with min_answer_rate 0 and
\* submission enabled
Lenient == ~config.strict_mode /\ config.min_answer_rate = 0 /\ config.auto_submit

\* C40: in that configuration a chapter of which no question was answered is
\* not submitted, its report is not a success, and the job counts it as a
\* failed chapter, not as a successful one.
C40_NothingAnsweredFails ==
  /\ [](\A w \in Workers :
          (Called(w) /\ Lenient /\ LastReport(w).stats.answered = 0)
             => /\ "submit" \notin LastCall(w).requests
                /\ LastCall(w).submit_status = <<>>
                /\ ~LastReport(w).success
                /\ wk[w].st.fail_count >= 1)
  /\ [][\A w \in Workers :
          (/\ Lenient /\ wk[w].pc = "pipeline" /\ wk[w].st.stage = "chapter"
           /\ wk'[w].pc = "pipeline" /\ wk'[w].st.stage # "chapter"
           /\ wk'[w].st.last.report.stats.answered = 0)
             => /\ wk'[w].st.fail_count = wk[w].st.fail_count + 1
                /\ wk'[w].st.success_count = wk[w].st.success_count
                /\ "submit" \notin wk'[w].st.last.requests]_vars

\* C40 witness: in that configuration a chapter of two questions, none of
\* them answered, was reported with the no-answers message after a chapter
\* that went through
C40_Witness ==
  \E w \in Workers :
    /\ Called(w) /\ Lenient
    /\ LastReport(w).stats.total = 2 /\ LastReport(w).stats.answered = 0
    /\ LastReport(w).message = "no_answers"
    /\ wk[w].st.success_count = 1 /\ wk[w].st.fail_count = 1

====
